---- MODULE Spec2Model ----
(***************************************************************************)
(* A model of the rule require-call-in-context                             *)
(* (lib/rules/require-call-in-context.js).                                 *)
(*                                                                         *)
(* A JavaScript string is a sequence of one-character strings, so that     *)
(* join(".") and split(".") are computed and not assumed.  A syntax-tree   *)
(* node is a record with a `type` field, as in ESTree.                     *)
(***************************************************************************)
EXTENDS Naturals, Sequences, FiniteSets, TLC

VARIABLES
    policy,     \* the options read by create(): check, checkFunctions, enforce, requireAll
    agenda,     \* the nodes the host has still to dispatch to the visitors
    reports,    \* the calls of context.report made so far, in order
    sites,      \* the function nodes handed to checkFunctionForEnforcedCalls so far
    arg,        \* the argument of the function under study
    ret,        \* <<>> before the function returned, <<value>> after
    pc          \* which operation comes next

vars == <<policy, agenda, reports, sites, arg, ret, pc>>

----------------------------------------------------------------------------
(* Strings *)

Dot == "."

\* the result null of getCallExpressionName: the one name that is no string
null == <<"null">>

\* a node reference that is null or undefined
NULL == [type |-> "null"]

\* String.prototype.includes, for a one-character needle
includes(s, c) == \E i \in DOMAIN s : s[i] = c

\* String.prototype.split(".")
RECURSIVE split(_)
split(s) ==
    IF ~includes(s, Dot) THEN <<s>>
    ELSE LET i == CHOOSE k \in DOMAIN s :
                     s[k] = Dot /\ \A j \in 1..(k - 1) : s[j] # Dot
         IN <<SubSeq(s, 1, i - 1)>> \o split(SubSeq(s, i + 1, Len(s)))

\* Array.prototype.join(sep)
RECURSIVE join(_, _)
join(parts, sep) ==
    IF parts = <<>> THEN <<>>
    ELSE IF Len(parts) = 1 THEN parts[1]
    ELSE parts[1] \o sep \o join(Tail(parts), sep)

\* JavaScript truthiness of a string-or-null value
truthy(name) == name # null /\ name # <<>>

----------------------------------------------------------------------------
(* Syntax-tree nodes, as the rule reads them *)

Identifier(name) == [type |-> "Identifier", name |-> name]
ThisExpression == [type |-> "ThisExpression"]
Literal == [type |-> "Literal"]
BinaryExpression == [type |-> "BinaryExpression"]
MemberExpression(object, property, computed) ==
    [type |-> "MemberExpression", object |-> object, property |-> property,
     computed |-> computed]
CallExpression(callee, arguments) ==
    [type |-> "CallExpression", callee |-> callee, arguments |-> arguments]
AwaitExpression(argument) == [type |-> "AwaitExpression", argument |-> argument]
TSAsExpression(expression) == [type |-> "TSAsExpression", expression |-> expression]
TSSatisfiesExpression(expression) ==
    [type |-> "TSSatisfiesExpression", expression |-> expression]
TSTypeAssertion(expression) == [type |-> "TSTypeAssertion", expression |-> expression]
ObjectExpression(properties) ==
    [type |-> "ObjectExpression", properties |-> properties]
Property(key, value) == [type |-> "Property", key |-> key, value |-> value]
SpreadElement(argument) == [type |-> "SpreadElement", argument |-> argument]

BlockStatement(body) == [type |-> "BlockStatement", body |-> body]
\* a block whose braces hold a comment and no statement: the comment is no node
CommentOnlyBlock ==
    [type |-> "BlockStatement", body |-> <<>>, comments |-> <<"hasPermission()">>]
ArrowFunctionExpression(expression, body) ==
    [type |-> "ArrowFunctionExpression", expression |-> expression, body |-> body]
FunctionExpression(body) == [type |-> "FunctionExpression", body |-> body]
FunctionDeclaration(id, body) ==
    [type |-> "FunctionDeclaration", id |-> id, body |-> body]

ExpressionStatement(expression) ==
    [type |-> "ExpressionStatement", expression |-> expression]
VariableDeclarator(id, init) ==
    [type |-> "VariableDeclarator", id |-> id, init |-> init]
VariableDeclaration(declarations) ==
    [type |-> "VariableDeclaration", declarations |-> declarations]
ReturnStatement(argument) == [type |-> "ReturnStatement", argument |-> argument]
IfStatement(consequent, alternate) ==
    [type |-> "IfStatement", test |-> Literal,
     consequent |-> consequent, alternate |-> alternate]
CatchClause(body) == [type |-> "CatchClause", body |-> body]
TryStatement(block, handler, finalizer) ==
    [type |-> "TryStatement", block |-> block,
     handler |-> handler, finalizer |-> finalizer]
\* for, for-in, for-of, while, do-while, with and labeled statements
BodyStatement(type, body) == [type |-> type, body |-> body]
SwitchCase(consequent) == [type |-> "SwitchCase", consequent |-> consequent]
SwitchStatement(cases) == [type |-> "SwitchStatement", cases |-> cases]
\* statements and expressions holding an expression the extractor never reads
IfStatementOn(test, consequent) ==
    [type |-> "IfStatement", test |-> test,
     consequent |-> consequent, alternate |-> NULL]
WhileStatement(test, body) ==
    [type |-> "WhileStatement", test |-> test, body |-> body]
ForStatement(init, body) ==
    [type |-> "ForStatement", init |-> init, test |-> NULL, update |-> NULL,
     body |-> body]
SwitchStatementOn(discriminant, cases) ==
    [type |-> "SwitchStatement", discriminant |-> discriminant, cases |-> cases]
AssignmentExpression(left, right) ==
    [type |-> "AssignmentExpression", left |-> left, right |-> right]
LogicalExpression(left, right) ==
    [type |-> "LogicalExpression", left |-> left, right |-> right]
ExportNamedDeclaration(declaration) ==
    [type |-> "ExportNamedDeclaration", declaration |-> declaration]
ExportDefaultDeclaration(declaration) ==
    [type |-> "ExportDefaultDeclaration", declaration |-> declaration]

\* JavaScript truthiness of a node reference
present(node) == node # NULL

----------------------------------------------------------------------------
(* Name resolver *)

\* the loop with push in the place of unshift
RECURSIVE walkMemberChainPush(_, _)
walkMemberChainPush(current, parts) ==
    IF current.type = "MemberExpression"
    THEN walkMemberChainPush(
             current.object,
             IF current.property.type = "Identifier"
             THEN parts \o <<current.property.name>>
             ELSE parts)
    ELSE IF current.type = "Identifier"
    THEN join(parts \o <<current.name>>, <<Dot>>)
    ELSE null

\* the loop leaving with the segments read so far when the base is no identifier
RECURSIVE walkMemberChainPartial(_, _)
walkMemberChainPartial(current, parts) ==
    IF current.type = "MemberExpression"
    THEN walkMemberChainPartial(
             current.object,
             IF current.property.type = "Identifier"
             THEN <<current.property.name>> \o parts
             ELSE parts)
    ELSE IF current.type = "Identifier"
    THEN join(<<current.name>> \o parts, <<Dot>>)
    ELSE join(parts, <<Dot>>)

\* the loop `while (current)` of getCallExpressionName
RECURSIVE walkMemberChain(_, _)
walkMemberChain(current, parts) ==
    IF current.type = "MemberExpression"
    THEN walkMemberChain(
             current.object,
             IF current.property.type = "Identifier"
             THEN <<current.property.name>> \o parts
             ELSE parts)
    ELSE IF current.type = "Identifier"
    THEN join(<<current.name>> \o parts, <<Dot>>)
    ELSE null

getCallExpressionName(node) ==
    IF node.type # "CallExpression" THEN null
    ELSE IF node.callee.type = "Identifier" THEN node.callee.name
    ELSE IF node.callee.type = "MemberExpression"
    THEN walkMemberChain(node.callee, <<>>)
    ELSE null

----------------------------------------------------------------------------
(* Name matcher and policy evaluator *)

callMatchesEnforcedExactOnly(call, enforce) == call = enforce

callMatchesEnforcedSuffix(call, enforce) ==
    \/ call = enforce
    \/ /\ includes(call, Dot)
       /\ Len(call) > Len(enforce)
       /\ SubSeq(call, Len(call) - Len(enforce), Len(call)) = <<Dot>> \o enforce

callMatchesEnforced(call, enforce) ==
    IF call = enforce THEN TRUE
    ELSE IF includes(call, Dot) /\ ~includes(enforce, Dot)
    THEN LET parts == split(call)
             lastPart == parts[Len(parts)]
         IN lastPart = enforce
    ELSE FALSE

\* `calls.some((call) => callMatchesEnforced(call, fn))`
someCallMatches(calls, fn) ==
    \E i \in DOMAIN calls : callMatchesEnforced(calls[i], fn)

checkEnforcedCallsAlwaysSome(calls, enforce, requireAll) ==
    \E j \in DOMAIN enforce : someCallMatches(calls, enforce[j])

checkEnforcedCallsAlwaysEvery(calls, enforce, requireAll) ==
    \A j \in DOMAIN enforce : someCallMatches(calls, enforce[j])

\* a policy that a function with no call at all satisfies
checkEnforcedCallsVacuous(calls, enforce, requireAll) ==
    IF calls = <<>> THEN TRUE
    ELSE IF requireAll
    THEN \A j \in DOMAIN enforce : someCallMatches(calls, enforce[j])
    ELSE \E j \in DOMAIN enforce : someCallMatches(calls, enforce[j])

\* a policy that also fails when some call matches no enforced name
checkEnforcedCallsOnlyEnforced(calls, enforce, requireAll) ==
    /\ \A i \in DOMAIN calls : \E j \in DOMAIN enforce :
           callMatchesEnforced(calls[i], enforce[j])
    /\ IF requireAll
       THEN \A j \in DOMAIN enforce : someCallMatches(calls, enforce[j])
       ELSE \E j \in DOMAIN enforce : someCallMatches(calls, enforce[j])

\* a policy that an empty list of enforced names always satisfies
checkEnforcedCallsEmptyPasses(calls, enforce, requireAll) ==
    IF enforce = <<>> THEN TRUE
    ELSE IF requireAll
    THEN \A j \in DOMAIN enforce : someCallMatches(calls, enforce[j])
    ELSE \E j \in DOMAIN enforce : someCallMatches(calls, enforce[j])

checkEnforcedCalls(calls, enforce, requireAll) ==
    IF requireAll
    THEN \A j \in DOMAIN enforce : someCallMatches(calls, enforce[j])
    ELSE \E j \in DOMAIN enforce : someCallMatches(calls, enforce[j])

----------------------------------------------------------------------------
(* Emptiness check *)

isEmptyCallbackNever(node) == FALSE

isEmptyCallback(node) ==
    IF node.type = "ArrowFunctionExpression" /\ node.expression THEN FALSE
    ELSE IF present(node.body) /\ node.body.type = "BlockStatement"
    THEN Len(node.body.body) = 0
    ELSE FALSE

----------------------------------------------------------------------------
(* Call extractor *)

\* an extractor that looks at the expression as written
unwrapAwaitNever(expr) == expr

\* `if (expr.type === "AwaitExpression") expr = expr.argument`
unwrapAwait(expr) == IF expr.type = "AwaitExpression" THEN expr.argument ELSE expr

\* an extractor that records a call whether or not its name resolves
pushNameUnresolved(expr) == <<getCallExpressionName(expr)>>

\* `const name = getCallExpressionName(expr); if (name) calls.push(name)`
pushName(expr) ==
    LET name == getCallExpressionName(expr)
    IN IF truthy(name) THEN <<name>> ELSE <<>>

\* `if (expr.type === "CallExpression") { ... calls.push(name) }`
pushCall(expr) == IF expr.type = "CallExpression" THEN pushName(expr) ELSE <<>>

RECURSIVE collectCallsFromStatement(_)

\* `for (const stmt of ...) collectCallsFromStatement(stmt)`
RECURSIVE collectCallsFromStatements(_)
collectCallsFromStatements(stmts) ==
    IF stmts = <<>> THEN <<>>
    ELSE collectCallsFromStatement(Head(stmts))
             \o collectCallsFromStatements(Tail(stmts))

\* `for (const declarator of statement.declarations)`
RECURSIVE collectCallsFromDeclarators(_)
collectCallsFromDeclarators(declarations) ==
    IF declarations = <<>> THEN <<>>
    ELSE (IF present(Head(declarations).init)
          THEN pushCall(unwrapAwait(Head(declarations).init))
          ELSE <<>>)
             \o collectCallsFromDeclarators(Tail(declarations))

\* `for (const caseClause of statement.cases)`
RECURSIVE collectCallsFromCases(_)
collectCallsFromCases(cases) ==
    IF cases = <<>> THEN <<>>
    ELSE collectCallsFromStatements(Head(cases).consequent)
             \o collectCallsFromCases(Tail(cases))

\* the statement kinds whose `body` is traversed
BodyStatementTypes ==
    {"ForStatement", "ForInStatement", "ForOfStatement", "WhileStatement",
     "DoWhileStatement", "WithStatement", "LabeledStatement"}

\* a traversal of the top-level statements only: no compound statement is entered
collectCallsFlat(statement) ==
    CASE statement.type = "ExpressionStatement" ->
             pushCall(unwrapAwait(statement.expression))
      [] statement.type = "VariableDeclaration" ->
             collectCallsFromDeclarators(statement.declarations)
      [] statement.type = "ReturnStatement" ->
             IF present(statement.argument)
             THEN pushCall(unwrapAwait(statement.argument))
             ELSE <<>>
      [] OTHER -> <<>>

\* a traversal that also reads the condition of an if, a while and a switch
collectCallsWithConditions(statement) ==
    CASE statement.type = "ExpressionStatement" ->
             pushCall(unwrapAwait(statement.expression))
      [] statement.type = "VariableDeclaration" ->
             collectCallsFromDeclarators(statement.declarations)
      [] statement.type = "ReturnStatement" ->
             IF present(statement.argument)
             THEN pushCall(unwrapAwait(statement.argument))
             ELSE <<>>
      [] statement.type = "BlockStatement" ->
             collectCallsFromStatements(statement.body)
      [] statement.type = "IfStatement" ->
             pushCall(unwrapAwait(statement.test))
                 \o collectCallsFromStatement(statement.consequent)
                 \o collectCallsFromStatement(statement.alternate)
      [] statement.type = "TryStatement" ->
             collectCallsFromStatement(statement.block)
                 \o (IF present(statement.handler)
                     THEN collectCallsFromStatement(statement.handler.body)
                     ELSE <<>>)
                 \o collectCallsFromStatement(statement.finalizer)
      [] statement.type = "WhileStatement" /\ "test" \in DOMAIN statement ->
             pushCall(unwrapAwait(statement.test))
                 \o collectCallsFromStatement(statement.body)
      [] statement.type \in BodyStatementTypes ->
             collectCallsFromStatement(statement.body)
      [] statement.type = "SwitchStatement" ->
             (IF "discriminant" \in DOMAIN statement
              THEN pushCall(unwrapAwait(statement.discriminant))
              ELSE <<>>)
                 \o collectCallsFromCases(statement.cases)
      [] OTHER -> <<>>

\* the chain of `if (statement.type === ...)` of collectCallsFromStatement
collectCallsByType(statement) ==
    CASE statement.type = "ExpressionStatement" ->
             pushCall(unwrapAwait(statement.expression))
      [] statement.type = "VariableDeclaration" ->
             collectCallsFromDeclarators(statement.declarations)
      [] statement.type = "ReturnStatement" ->
             IF present(statement.argument)
             THEN pushCall(unwrapAwait(statement.argument))
             ELSE <<>>
      [] statement.type = "BlockStatement" ->
             collectCallsFromStatements(statement.body)
      [] statement.type = "IfStatement" ->
             collectCallsFromStatement(statement.consequent)
                 \o collectCallsFromStatement(statement.alternate)
      [] statement.type = "TryStatement" ->
             collectCallsFromStatement(statement.block)
                 \o (IF present(statement.handler)
                     THEN collectCallsFromStatement(statement.handler.body)
                     ELSE <<>>)
                 \o collectCallsFromStatement(statement.finalizer)
      [] statement.type \in BodyStatementTypes ->
             collectCallsFromStatement(statement.body)
      [] statement.type = "SwitchStatement" ->
             collectCallsFromCases(statement.cases)
      [] OTHER -> <<>>

\* a traversal that does not stop at a nested function declaration
collectCallsIntoFunctions(statement) ==
    IF ~present(statement) THEN <<>>
    ELSE IF statement.type = "FunctionDeclaration"
    THEN collectCallsFromStatement(statement.body)
    ELSE collectCallsByType(statement)

collectCallsFromStatement(statement) ==
    IF ~present(statement) THEN <<>> ELSE collectCallsByType(statement)

getDirectCalls(node) ==
    IF node.type = "ArrowFunctionExpression" /\ node.expression
    THEN pushName(unwrapAwait(node.body))
    ELSE IF present(node.body) /\ node.body.type = "BlockStatement"
    THEN collectCallsFromStatements(node.body.body)
    ELSE <<>>

----------------------------------------------------------------------------
(* The statements collectCallsFromStatement is called on for one function *)

RECURSIVE visitedStatement(_)

\* `for (const stmt of ...) collectCallsFromStatement(stmt)`
RECURSIVE visitedStatements(_)
visitedStatements(stmts) ==
    IF stmts = <<>> THEN <<>>
    ELSE visitedStatement(Head(stmts)) \o visitedStatements(Tail(stmts))

RECURSIVE visitedCases(_)
visitedCases(cases) ==
    IF cases = <<>> THEN <<>>
    ELSE visitedStatements(Head(cases).consequent) \o visitedCases(Tail(cases))

\* the statement itself, then the statements reached by the recursive calls
visitedByType(statement) ==
    <<statement>> \o
    CASE statement.type = "BlockStatement" -> visitedStatements(statement.body)
      [] statement.type = "IfStatement" ->
             visitedStatement(statement.consequent)
                 \o visitedStatement(statement.alternate)
      [] statement.type = "TryStatement" ->
             visitedStatement(statement.block)
                 \o (IF present(statement.handler)
                     THEN visitedStatement(statement.handler.body)
                     ELSE <<>>)
                 \o visitedStatement(statement.finalizer)
      [] statement.type \in BodyStatementTypes -> visitedStatement(statement.body)
      [] statement.type = "SwitchStatement" -> visitedCases(statement.cases)
      [] OTHER -> <<>>

\* the statements of the block bodies of the function-valued arguments
RECURSIVE visitedArguments(_)
visitedArguments(arguments) ==
    IF arguments = <<>> THEN <<>>
    ELSE (IF Head(arguments).type \in {"ArrowFunctionExpression", "FunctionExpression"}
             /\ Head(arguments).body.type = "BlockStatement"
          THEN visitedStatements(Head(arguments).body.body)
          ELSE <<>>)
             \o visitedArguments(Tail(arguments))

\* a traversal that goes on into the callbacks given to the calls of the body
visitedStatementIntoCallbacks(statement) ==
    IF ~present(statement) THEN <<>>
    ELSE IF statement.type = "ExpressionStatement"
            /\ statement.expression.type = "CallExpression"
    THEN <<statement>> \o visitedArguments(statement.expression.arguments)
    ELSE visitedByType(statement)

\* `if (!statement) return;`
visitedStatement(statement) ==
    IF ~present(statement) THEN <<>> ELSE visitedByType(statement)

\* the statements traversed by getDirectCalls(node)
visitedByGetDirectCalls(node) ==
    IF node.type = "ArrowFunctionExpression" /\ node.expression THEN <<>>
    ELSE IF present(node.body) /\ node.body.type = "BlockStatement"
    THEN visitedStatements(node.body.body)
    ELSE <<>>

----------------------------------------------------------------------------
(* The rule instance made by create(context) *)

\* `new Set(check)`, `new Set(checkFunctions)`
Range(seq) == {seq[i] : i \in DOMAIN seq}
\* a set kept at module level, to which every rule instance adds its names
checkSetOfEveryInstance ==
    Range(policy.check) \cup (IF ret # <<>> THEN Range(ret[1].policy.check) ELSE {})

checkSet == Range(policy.check)
checkFunctionsSet == Range(policy.checkFunctions)

messageId == IF policy.requireAll THEN "missingAll" ELSE "missingAtLeastOne"

\* an unwrapping of the outermost type assertion only
unwrapTypeExpressionOnce(node) ==
    IF ~present(node) THEN node
    ELSE IF node.type \in {"TSSatisfiesExpression", "TSAsExpression", "TSTypeAssertion"}
    THEN node.expression
    ELSE node

RECURSIVE unwrapTypeExpression(_)
unwrapTypeExpression(node) ==
    IF ~present(node) THEN node
    ELSE IF node.type \in {"TSSatisfiesExpression", "TSAsExpression", "TSTypeAssertion"}
    THEN unwrapTypeExpression(node.expression)
    ELSE node

\* a report that lists the enforced names the function does not call
reportMissingOnly(funcNode) ==
    LET calls == getDirectCalls(funcNode)
        Missing(fn) == ~someCallMatches(calls, fn)
    IN [node |-> funcNode, messageId |-> messageId,
        data |-> [functions |-> join(SelectSeq(policy.enforce, Missing), <<",", " ">>)]]

\* context.report({ node, messageId, data: { functions } })
report(funcNode) ==
    [node |-> funcNode, messageId |-> messageId,
     data |-> [functions |-> join(policy.enforce, <<",", " ">>)]]

\* a rule that keeps, from one pass to the next, the functions it has reported
\* and does not report them again
checkFunctionRememberingReports(st, funcNode) ==
    LET seen == Append(st.sites, funcNode)
        remembered == /\ ret # <<>>
                      /\ \E i \in DOMAIN ret[1].reports : ret[1].reports[i].node = funcNode
    IN IF isEmptyCallback(funcNode) \/ remembered
       THEN [reports |-> st.reports, sites |-> seen]
       ELSE LET calls == getDirectCalls(funcNode)
            IN IF ~checkEnforcedCalls(calls, policy.enforce, policy.requireAll)
               THEN [reports |-> Append(st.reports, report(funcNode)), sites |-> seen]
               ELSE [reports |-> st.reports, sites |-> seen]

\* a rule that reports the first failing function of a pass only
checkFunctionOncePerPass(st, funcNode) ==
    LET seen == Append(st.sites, funcNode)
    IN IF isEmptyCallback(funcNode) \/ st.reports # <<>>
       THEN [reports |-> st.reports, sites |-> seen]
       ELSE LET calls == getDirectCalls(funcNode)
            IN IF ~checkEnforcedCalls(calls, policy.enforce, policy.requireAll)
               THEN [reports |-> Append(st.reports, report(funcNode)), sites |-> seen]
               ELSE [reports |-> st.reports, sites |-> seen]

\* st is the pair of the reports made and of the sites evaluated so far
checkFunctionForEnforcedCalls(st, funcNode) ==
    LET seen == Append(st.sites, funcNode)
    IN IF isEmptyCallback(funcNode) THEN [reports |-> st.reports, sites |-> seen]
       ELSE LET calls == getDirectCalls(funcNode)
            IN IF ~checkEnforcedCalls(calls, policy.enforce, policy.requireAll)
               THEN [reports |-> Append(st.reports, report(funcNode)), sites |-> seen]
               ELSE [reports |-> st.reports, sites |-> seen]

getExportedFunctionName(node) ==
    IF present(node.id) /\ node.id.type = "Identifier" THEN node.id.name ELSE null

isFunctionValue(node) ==
    present(node) /\ node.type \in {"ArrowFunctionExpression", "FunctionExpression"}

\* a visitor that looks at the first argument only
checkArgumentsFirstOnly(st, arguments) ==
    IF arguments = <<>> THEN st
    ELSE IF isFunctionValue(Head(arguments))
    THEN checkFunctionForEnforcedCalls(st, Head(arguments))
    ELSE st

\* `for (const arg of node.arguments)` of the CallExpression visitor
RECURSIVE checkArguments(_, _)
checkArguments(st, arguments) ==
    IF arguments = <<>> THEN st
    ELSE checkArguments(
             IF isFunctionValue(Head(arguments))
             THEN checkFunctionForEnforcedCalls(st, Head(arguments))
             ELSE st,
             Tail(arguments))

\* a visitor that matches the names of `check` as enforced names are matched
onCallExpressionBySuffix(st, node) ==
    LET functionName == getCallExpressionName(node)
    IN IF truthy(functionName)
          /\ \E k \in DOMAIN policy.check :
                 callMatchesEnforced(functionName, policy.check[k])
       THEN checkArguments(st, node.arguments)
       ELSE st

onCallExpression(st, node) ==
    LET functionName == getCallExpressionName(node)
    IN IF ~truthy(functionName) \/ functionName \notin checkSet THEN st
       ELSE checkArguments(st, node.arguments)

\* a loop over the properties that ends at the first report
RECURSIVE checkPropertiesUntilReport(_, _)
checkPropertiesUntilReport(st, properties) ==
    IF properties = <<>> THEN st
    ELSE LET property == Head(properties)
             unwrappedValue == unwrapTypeExpression(property.value)
             st1 == IF property.type = "Property" /\ isFunctionValue(unwrappedValue)
                    THEN checkFunctionForEnforcedCalls(st, unwrappedValue)
                    ELSE st
         IN IF Len(st1.reports) > Len(st.reports) THEN st1
            ELSE checkPropertiesUntilReport(st1, Tail(properties))

\* `for (const property of unwrappedInit.properties)`
RECURSIVE checkProperties(_, _)
checkProperties(st, properties) ==
    IF properties = <<>> THEN st
    ELSE LET property == Head(properties)
             unwrappedValue == unwrapTypeExpression(property.value)
         IN checkProperties(
                IF property.type = "Property" /\ isFunctionValue(unwrappedValue)
                THEN checkFunctionForEnforcedCalls(st, unwrappedValue)
                ELSE st,
                Tail(properties))

\* the body of `for (const declarator of node.declaration.declarations)`
checkDeclarator(st, declarator) ==
    LET name == getExportedFunctionName(declarator)
    IN IF ~truthy(name) \/ name \notin checkFunctionsSet THEN st
       ELSE LET unwrappedInit == unwrapTypeExpression(declarator.init)
                st1 == IF isFunctionValue(unwrappedInit)
                       THEN checkFunctionForEnforcedCalls(st, unwrappedInit)
                       ELSE st
            IN IF present(unwrappedInit) /\ unwrappedInit.type = "ObjectExpression"
               THEN checkProperties(st1, unwrappedInit.properties)
               ELSE st1

RECURSIVE checkDeclarators(_, _)
checkDeclarators(st, declarations) ==
    IF declarations = <<>> THEN st
    ELSE checkDeclarators(checkDeclarator(st, Head(declarations)), Tail(declarations))

\* a visitor that takes every exported function declaration for a site
checkExportedFunctionDeclarationAnyName(st, node) ==
    IF present(node.declaration) /\ node.declaration.type = "FunctionDeclaration"
    THEN checkFunctionForEnforcedCalls(st, node.declaration)
    ELSE st

\* `if (node.declaration && node.declaration.type === "FunctionDeclaration")`
checkExportedFunctionDeclaration(st, node) ==
    IF present(node.declaration) /\ node.declaration.type = "FunctionDeclaration"
    THEN LET name == IF present(node.declaration.id)
                     THEN node.declaration.id.name
                     ELSE null
         IN IF truthy(name) /\ name \in checkFunctionsSet
            THEN checkFunctionForEnforcedCalls(st, node.declaration)
            ELSE st
    ELSE st

onExportNamedDeclaration(st, node) ==
    IF Cardinality(checkFunctionsSet) = 0 THEN st
    ELSE checkExportedFunctionDeclaration(
             IF present(node.declaration)
                /\ node.declaration.type = "VariableDeclaration"
             THEN checkDeclarators(st, node.declaration.declarations)
             ELSE st,
             node)

onExportDefaultDeclaration(st, node) ==
    IF Cardinality(checkFunctionsSet) = 0 THEN st
    ELSE checkExportedFunctionDeclaration(st, node)

----------------------------------------------------------------------------
(* Names used by the inputs *)

hasPermission == <<"h">>
isAuthenticated == <<"i">>
query == <<"q">>
batch == <<"b">>
auth == <<"a">>
load == <<"l">>
helper == <<"f">>
then == <<"t">>

\* the options of create() when none are given
DefaultPolicy ==
    [check |-> <<>>, checkFunctions |-> <<>>, enforce |-> <<>>, requireAll |-> FALSE]

\* the sequences over S of length lo..hi
RECURSIVE SeqsOfLen(_, _)
SeqsOfLen(S, n) ==
    IF n = 0 THEN {<<>>}
    ELSE {<<x>> \o t : x \in S, t \in SeqsOfLen(S, n - 1)}
SeqsBetween(S, lo, hi) == UNION {SeqsOfLen(S, n) : n \in lo..hi}

----------------------------------------------------------------------------
(* The name matcher applied to one pair of names *)

MaxStrLen == 3
MaxSegments == 3

Alphabet == {"a", "h", Dot}
\* an enforce entry is any string the schema admits
ConfigStrings == SeqsBetween(Alphabet, 0, MaxStrLen)
\* a call name is a dotted chain of identifiers
SegmentNames == {<<"a">>, <<"h">>, <<"a", "h">>}
CanonicalNames ==
    {join(segs, <<Dot>>) : segs \in SeqsBetween(SegmentNames, 1, MaxSegments)}

InitMatch ==
    /\ policy = DefaultPolicy
    /\ agenda = <<>>
    /\ reports = <<>>
    /\ sites = <<>>
    /\ arg \in [call : CanonicalNames, enforce : ConfigStrings]
    /\ ret = <<>>
    /\ pc = "start"

MatchName ==
    /\ pc = "start"
    /\ ret' = <<callMatchesEnforced(arg.call, arg.enforce)>>
    /\ pc' = "matched"
    /\ UNCHANGED <<policy, agenda, reports, sites, arg>>

SpecMatch == InitMatch /\ [][MatchName]_vars

----------------------------------------------------------------------------
(* The name resolver applied to one call, and the rule applied to a         *)
(* callback whose only statement is that call                              *)

MaxChain == 3

ChainBases ==
    {Identifier(auth), Identifier(hasPermission), ThisExpression,
     CallExpression(Identifier(query), <<>>)}

\* object.name, object[0], object[name]
ChainLinks(object) ==
    {MemberExpression(object, Identifier(hasPermission), FALSE),
     MemberExpression(object, Identifier(batch), FALSE),
     MemberExpression(object, Literal, TRUE),
     MemberExpression(object, Identifier(hasPermission), TRUE)}

RECURSIVE Chains(_)
Chains(n) ==
    IF n = 0 THEN ChainBases
    ELSE ChainBases \cup UNION {ChainLinks(c) : c \in Chains(n - 1)}

CallNodes ==
    {CallExpression(callee, <<>>) : callee \in Chains(MaxChain)}
        \cup {CallExpression(
                  ArrowFunctionExpression(FALSE,
                      BlockStatement(<<ExpressionStatement(
                          CallExpression(Identifier(hasPermission), <<>>))>>)),
                  <<>>),
              Identifier(hasPermission)}

NamePolicies ==
    {[check |-> <<query>>, checkFunctions |-> <<>>,
      enforce |-> <<hasPermission>>, requireAll |-> r] : r \in BOOLEAN}

\* `() => { <call> }`
CallbackOf(expression) ==
    ArrowFunctionExpression(FALSE, BlockStatement(<<ExpressionStatement(expression)>>))

InitName ==
    /\ policy \in NamePolicies
    /\ agenda = <<>>
    /\ reports = <<>>
    /\ sites = <<>>
    /\ arg \in CallNodes
    /\ ret = <<>>
    /\ pc = "start"

ResolveName ==
    /\ pc = "start"
    /\ ret' = <<getCallExpressionName(arg)>>
    /\ pc' = "resolved"
    /\ UNCHANGED <<policy, agenda, reports, sites, arg>>

CheckCallbackOfCall ==
    /\ pc = "resolved"
    /\ LET st == checkFunctionForEnforcedCalls(
                     [reports |-> reports, sites |-> sites], CallbackOf(arg))
       IN reports' = st.reports /\ sites' = st.sites
    /\ pc' = "checked"
    /\ UNCHANGED <<policy, agenda, arg, ret>>

SpecName == InitName /\ [][ResolveName \/ CheckCallbackOfCall]_vars

----------------------------------------------------------------------------
(* The rule applied to one site, over the policies *)

MaxBody == 2
MaxEnforce == 2

CallStatement(callee) == ExpressionStatement(CallExpression(callee, <<>>))
AuthHasPermission == MemberExpression(Identifier(auth), Identifier(hasPermission), FALSE)

SiteStatements ==
    {CallStatement(Identifier(hasPermission)),
     CallStatement(Identifier(isAuthenticated)),
     CallStatement(AuthHasPermission),
     CallStatement(Identifier(helper)),
     VariableDeclaration(<<VariableDeclarator(Identifier(helper), BinaryExpression)>>)}

SiteExpressions ==
    {CallExpression(Identifier(hasPermission), <<>>),
     CallExpression(Identifier(isAuthenticated), <<>>),
     CallExpression(AuthHasPermission, <<>>),
     AwaitExpression(CallExpression(Identifier(hasPermission), <<>>)),
     Literal}

\* the three kinds of function with a block body, and the arrow with an expression body
BlockFunctions(body) ==
    {ArrowFunctionExpression(FALSE, BlockStatement(body)),
     FunctionExpression(BlockStatement(body)),
     FunctionDeclaration(Identifier(load), BlockStatement(body))}

SiteFunctions ==
    UNION {BlockFunctions(body) : body \in SeqsBetween(SiteStatements, 0, MaxBody)}
        \cup {ArrowFunctionExpression(TRUE, e) : e \in SiteExpressions}

EnforceNames == {hasPermission, isAuthenticated, <<"a", ".", "h">>}

SitePolicies ==
    {[check |-> <<query>>, checkFunctions |-> <<load>>, enforce |-> e, requireAll |-> r] :
        e \in SeqsBetween(EnforceNames, 0, MaxEnforce), r \in BOOLEAN}

InitSite ==
    /\ policy \in SitePolicies
    /\ agenda = <<>>
    /\ reports = <<>>
    /\ sites = <<>>
    /\ arg \in SiteFunctions
    /\ ret = <<>>
    /\ pc = "site"

CheckSite ==
    /\ pc = "site"
    /\ LET st == checkFunctionForEnforcedCalls(
                     [reports |-> reports, sites |-> sites], arg)
       IN reports' = st.reports /\ sites' = st.sites
    /\ pc' = "checked"
    /\ UNCHANGED <<policy, agenda, arg, ret>>

SpecSite == InitSite /\ [][CheckSite]_vars

----------------------------------------------------------------------------
(* The call extractor applied to one function, then the rule *)

MaxNest == 2

CoreStatements == {CallStatement(Identifier(hasPermission))}

Arrow(s) == ArrowFunctionExpression(FALSE, BlockStatement(<<s>>))

\* statements that define a function whose body is the statement s
FunctionWrappers(s) ==
    {FunctionDeclaration(Identifier(helper), BlockStatement(<<s>>)),
     VariableDeclaration(<<VariableDeclarator(Identifier(helper), Arrow(s))>>),
     VariableDeclaration(<<VariableDeclarator(Identifier(helper),
                                              FunctionExpression(BlockStatement(<<s>>)))>>),
     ExpressionStatement(CallExpression(Arrow(s), <<>>)),
     ExpressionStatement(CallExpression(Identifier(helper), <<Arrow(s)>>)),
     ReturnStatement(Arrow(s))}
        \cup (IF s.type = "ExpressionStatement"
              THEN {VariableDeclaration(<<VariableDeclarator(
                        Identifier(helper),
                        ArrowFunctionExpression(TRUE, s.expression))>>)}
              ELSE {})

\* compound statements that hold the statement s
CompoundWrappers(s) ==
    {BlockStatement(<<s>>),
     IfStatement(s, NULL),
     IfStatement(BlockStatement(<<>>), s),
     TryStatement(BlockStatement(<<s>>), CatchClause(BlockStatement(<<>>)), NULL),
     TryStatement(BlockStatement(<<>>), CatchClause(BlockStatement(<<s>>)), NULL),
     TryStatement(BlockStatement(<<>>), NULL, BlockStatement(<<s>>)),
     SwitchStatement(<<SwitchCase(<<s>>)>>),
     SwitchStatement(<<SwitchCase(<<>>), SwitchCase(<<s>>)>>)}
        \cup {BodyStatement(t, s) : t \in BodyStatementTypes}

RECURSIVE Wrapped(_)
Wrapped(n) ==
    IF n = 0 THEN CoreStatements
    ELSE UNION {FunctionWrappers(s) \cup CompoundWrappers(s) : s \in Wrapped(n - 1)}

HasPermissionCall == CallExpression(Identifier(hasPermission), <<>>)

LeafStatements ==
    CoreStatements \cup
    {CallStatement(Identifier(helper)),
     CallStatement(Identifier(isAuthenticated)),
     CallStatement(AuthHasPermission),
     CallStatement(MemberExpression(ThisExpression, Identifier(hasPermission), FALSE)),
     ExpressionStatement(AwaitExpression(HasPermissionCall)),
     ExpressionStatement(AwaitExpression(Identifier(hasPermission))),
     ExpressionStatement(Identifier(hasPermission)),
     VariableDeclaration(<<VariableDeclarator(Identifier(helper), HasPermissionCall)>>),
     VariableDeclaration(<<VariableDeclarator(Identifier(helper),
                                              AwaitExpression(HasPermissionCall))>>),
     VariableDeclaration(<<VariableDeclarator(Identifier(helper), BinaryExpression)>>),
     VariableDeclaration(<<VariableDeclarator(Identifier(helper), Literal)>>),
     VariableDeclaration(<<VariableDeclarator(Identifier(helper), NULL),
                           VariableDeclarator(Identifier(load), HasPermissionCall)>>),
     ReturnStatement(HasPermissionCall),
     ReturnStatement(AwaitExpression(HasPermissionCall)),
     ReturnStatement(NULL),
     ExpressionStatement(AwaitExpression(AwaitExpression(HasPermissionCall))),
     VariableDeclaration(<<VariableDeclarator(Identifier(helper),
                               AwaitExpression(AwaitExpression(HasPermissionCall)))>>),
     VariableDeclaration(<<VariableDeclarator(Identifier(helper),
                               AwaitExpression(Identifier(hasPermission)))>>),
     ReturnStatement(AwaitExpression(AwaitExpression(HasPermissionCall))),
     ReturnStatement(AwaitExpression(Identifier(hasPermission))),
     ExpressionStatement(TSAsExpression(HasPermissionCall)),
     VariableDeclaration(<<VariableDeclarator(Identifier(helper),
                               TSAsExpression(HasPermissionCall))>>),
     ReturnStatement(TSSatisfiesExpression(HasPermissionCall))}

\* statements whose only call of hasPermission is in a position that is not the
\* whole expression of an expression statement, an initializer or a return value
UncollectedPositions ==
    {IfStatementOn(HasPermissionCall, BlockStatement(<<>>)),
     WhileStatement(HasPermissionCall, BlockStatement(<<>>)),
     SwitchStatementOn(HasPermissionCall, <<>>),
     ForStatement(HasPermissionCall, BlockStatement(<<>>)),
     ExpressionStatement(CallExpression(Identifier(helper), <<HasPermissionCall>>)),
     ExpressionStatement(CallExpression(Identifier(helper),
                                        <<Identifier(hasPermission)>>)),
     ExpressionStatement(
         CallExpression(MemberExpression(HasPermissionCall, Identifier(then), FALSE),
                        <<>>)),
     ExpressionStatement(AssignmentExpression(Identifier(helper), HasPermissionCall)),
     ExpressionStatement(LogicalExpression(HasPermissionCall, Literal)),
     ReturnStatement(LogicalExpression(Literal, HasPermissionCall))}

ExtractStatements == LeafStatements \cup UncollectedPositions \cup UNION {Wrapped(n) : n \in 1..MaxNest}

\* what follows the first statement of a body
Tails ==
    {<<>>, <<CallStatement(Identifier(helper))>>,
     <<CallStatement(Identifier(isAuthenticated))>>,
     <<CallStatement(Identifier(hasPermission))>>}

ExtractBodies == {<<>>} \cup {<<s>> \o t : s \in ExtractStatements, t \in Tails}

LeafBodies == {<<>>} \cup {<<s>> : s \in LeafStatements}

ExtractExpressions ==
    {HasPermissionCall,
     AwaitExpression(HasPermissionCall),
     AwaitExpression(Identifier(hasPermission)),
     AwaitExpression(AwaitExpression(HasPermissionCall)),
     TSAsExpression(HasPermissionCall),
     Identifier(hasPermission),
     ArrowFunctionExpression(TRUE, HasPermissionCall),
     CallExpression(Arrow(CallStatement(Identifier(hasPermission))), <<>>)}

ExtractFunctions ==
    {FunctionExpression(BlockStatement(body)) : body \in ExtractBodies}
        \cup UNION {BlockFunctions(body) : body \in LeafBodies}
        \cup {ArrowFunctionExpression(TRUE, e) : e \in ExtractExpressions}

ExtractPolicies ==
    {[check |-> <<query>>, checkFunctions |-> <<load>>,
      enforce |-> <<hasPermission>>, requireAll |-> FALSE],
     [check |-> <<query>>, checkFunctions |-> <<load>>,
      enforce |-> <<hasPermission, isAuthenticated>>, requireAll |-> TRUE]}

InitExtract ==
    /\ policy \in ExtractPolicies
    /\ agenda = <<>>
    /\ reports = <<>>
    /\ sites = <<>>
    /\ arg \in ExtractFunctions
    /\ ret = <<>>
    /\ pc = "start"

ExtractCalls ==
    /\ pc = "start"
    /\ ret' = <<getDirectCalls(arg)>>
    /\ pc' = "site"
    /\ UNCHANGED <<policy, agenda, reports, sites, arg>>

SpecExtract == InitExtract /\ [][ExtractCalls \/ CheckSite]_vars

----------------------------------------------------------------------------
(* One pass of the host over a program: every node is handed, in source     *)
(* order, to the visitor registered for its type                           *)

MaxArgs == 2
MaxProps == 2

\* the children of a node, in the order the host walks them
Children(node) ==
    CASE node.type = "ExpressionStatement" -> <<node.expression>>
      [] node.type = "CallExpression" -> <<node.callee>> \o node.arguments
      [] node.type = "MemberExpression" -> <<node.object, node.property>>
      [] node.type \in {"AwaitExpression", "SpreadElement", "ReturnStatement"} ->
             <<node.argument>>
      [] node.type \in {"TSAsExpression", "TSSatisfiesExpression", "TSTypeAssertion"} ->
             <<node.expression>>
      [] node.type = "ObjectExpression" -> node.properties
      [] node.type = "Property" -> <<node.key, node.value>>
      [] node.type \in {"ArrowFunctionExpression", "FunctionExpression"} -> <<node.body>>
      [] node.type = "FunctionDeclaration" -> <<node.id, node.body>>
      [] node.type = "BlockStatement" -> node.body
      [] node.type = "VariableDeclaration" -> node.declarations
      [] node.type = "VariableDeclarator" -> <<node.id, node.init>>
      [] node.type = "IfStatement" -> <<node.test, node.consequent, node.alternate>>
      [] node.type = "TryStatement" -> <<node.block, node.handler, node.finalizer>>
      [] node.type \in {"CatchClause"} \cup BodyStatementTypes -> <<node.body>>
      [] node.type = "SwitchStatement" -> node.cases
      [] node.type = "SwitchCase" -> node.consequent
      [] node.type \in {"ExportNamedDeclaration", "ExportDefaultDeclaration"} ->
             <<node.declaration>>
      [] OTHER -> <<>>

\* the nodes below and including the given ones, in the order of the walk
RECURSIVE Traverse(_)
Traverse(nodes) ==
    IF nodes = <<>> THEN <<>>
    ELSE IF ~present(Head(nodes)) THEN Traverse(Tail(nodes))
    ELSE <<Head(nodes)>> \o Traverse(Children(Head(nodes))) \o Traverse(Tail(nodes))

IsAuthenticatedCall == CallExpression(Identifier(isAuthenticated), <<>>)
QueryBatch == MemberExpression(Identifier(query), Identifier(batch), FALSE)

\* function values given as arguments
ArgFunctions ==
    {ArrowFunctionExpression(FALSE, BlockStatement(<<>>)),
     ArrowFunctionExpression(FALSE, CommentOnlyBlock),
     ArrowFunctionExpression(FALSE, BlockStatement(<<ExpressionStatement(HasPermissionCall)>>)),
     FunctionExpression(BlockStatement(<<ExpressionStatement(IsAuthenticatedCall)>>)),
     ArrowFunctionExpression(TRUE, HasPermissionCall),
     ArrowFunctionExpression(TRUE, Literal)}

MonitoredCalls ==
    {CallExpression(callee, arguments) :
        callee \in {Identifier(query), QueryBatch},
        arguments \in SeqsBetween(ArgFunctions \cup {Literal}, 0, MaxArgs)}

\* a callback that holds a monitored call of its own
NestedSiteCallback ==
    ArrowFunctionExpression(FALSE, BlockStatement(
        <<ExpressionStatement(CallExpression(Identifier(query),
              <<FunctionExpression(BlockStatement(
                    <<ExpressionStatement(IsAuthenticatedCall)>>))>>))>>))

\* `(() => { helper() })()`
InvokedFunction ==
    CallExpression(
        ArrowFunctionExpression(FALSE, BlockStatement(
            <<ExpressionStatement(CallExpression(Identifier(helper), <<>>))>>)),
        <<>>)

OtherCalls ==
    {CallExpression(Identifier(helper), <<ArrowFunctionExpression(TRUE, Literal)>>),
     CallExpression(Identifier(query), <<InvokedFunction>>),
     CallExpression(Identifier(query), <<NestedSiteCallback>>),
     CallExpression(Identifier(query), <<NestedSiteCallback, Literal>>)}

PropertyValues ==
    {ArrowFunctionExpression(FALSE, BlockStatement(<<>>)),
     ArrowFunctionExpression(FALSE, BlockStatement(<<ExpressionStatement(HasPermissionCall)>>)),
     FunctionExpression(BlockStatement(<<ExpressionStatement(IsAuthenticatedCall)>>)),
     TSAsExpression(ArrowFunctionExpression(TRUE, Literal)),
     Literal}

ObjectProperties ==
    {Property(Identifier(helper), v) : v \in PropertyValues}
        \cup {SpreadElement(Identifier(helper))}

MaxWrap == 2

\* `e as T`, `e satisfies T`, `<T>e`
TypeWrappings(e) == {TSAsExpression(e), TSSatisfiesExpression(e), TSTypeAssertion(e)}

\* the expressions of S inside n type assertions
RECURSIVE WrappedTimes(_, _)
WrappedTimes(S, n) ==
    IF n = 0 THEN S
    ELSE UNION {TypeWrappings(e) : e \in WrappedTimes(S, n - 1)}

WrappedBases ==
    {FunctionExpression(BlockStatement(<<ExpressionStatement(IsAuthenticatedCall)>>)),
     ObjectExpression(
         <<Property(Identifier(helper),
               TSAsExpression(TSTypeAssertion(ArrowFunctionExpression(TRUE, Literal))))>>)}

WrappedInitializers == UNION {WrappedTimes(WrappedBases, n) : n \in 1..MaxWrap}

Initializers ==
    ArgFunctions
        \cup WrappedInitializers
        \cup {ObjectExpression(ps) : ps \in SeqsBetween(ObjectProperties, 0, MaxProps)}
        \cup {TSSatisfiesExpression(TSAsExpression(
                  FunctionExpression(BlockStatement(
                      <<ExpressionStatement(IsAuthenticatedCall)>>)))),
              TSTypeAssertion(ObjectExpression(
                  <<Property(Identifier(helper), ArrowFunctionExpression(TRUE, Literal))>>)),
              Literal, NULL}

FunctionBlocks ==
    {BlockStatement(<<>>), CommentOnlyBlock,
     BlockStatement(<<ExpressionStatement(HasPermissionCall)>>),
     BlockStatement(<<ExpressionStatement(IsAuthenticatedCall)>>)}

Declarations ==
    {VariableDeclaration(<<VariableDeclarator(Identifier(name), init)>>) :
        name \in {load, helper}, init \in Initializers}
        \cup {FunctionDeclaration(Identifier(name), body) :
                 name \in {load, helper}, body \in FunctionBlocks}

TopStatements ==
    {ExpressionStatement(c) : c \in MonitoredCalls \cup OtherCalls}
        \cup {ExportNamedDeclaration(d) : d \in Declarations}
        \cup {ExportDefaultDeclaration(d) :
                 d \in {x \in Declarations : x.type = "FunctionDeclaration"}}
        \cup {ExportDefaultDeclaration(FunctionDeclaration(NULL,
                  BlockStatement(<<ExpressionStatement(IsAuthenticatedCall)>>))),
              ExportDefaultDeclaration(Identifier(load)),
              ExportNamedDeclaration(NULL),
              VariableDeclaration(<<VariableDeclarator(Identifier(load),
                  ArrowFunctionExpression(FALSE, BlockStatement(
                      <<ExpressionStatement(IsAuthenticatedCall)>>)))>>),
              FunctionDeclaration(Identifier(load),
                  BlockStatement(<<ExpressionStatement(IsAuthenticatedCall)>>))}

\* what follows the first statement of a program
ProgramTails ==
    {<<>>,
     <<ExportNamedDeclaration(FunctionDeclaration(Identifier(load), BlockStatement(<<>>)))>>,
     <<ExpressionStatement(CallExpression(Identifier(query),
           <<ArrowFunctionExpression(FALSE, BlockStatement(
                 <<ExpressionStatement(IsAuthenticatedCall)>>))>>))>>}

Programs == {<<t>> \o tail : t \in TopStatements, tail \in ProgramTails}

PassPolicies ==
    {[check |-> <<query>>, checkFunctions |-> <<>>,
      enforce |-> <<hasPermission>>, requireAll |-> FALSE],
     [check |-> <<query>>, checkFunctions |-> <<load>>,
      enforce |-> <<hasPermission, isAuthenticated>>, requireAll |-> TRUE],
     [check |-> <<<<"q", ".", "b">>>>, checkFunctions |-> <<load>>,
      enforce |-> <<hasPermission>>, requireAll |-> FALSE],
     [check |-> <<>>, checkFunctions |-> <<load, helper>>,
      enforce |-> <<isAuthenticated, hasPermission>>, requireAll |-> FALSE],
     [check |-> <<batch>>, checkFunctions |-> <<>>,
      enforce |-> <<hasPermission>>, requireAll |-> TRUE]}

Init ==
    /\ policy \in PassPolicies
    /\ arg \in Programs
    /\ agenda = Traverse(arg)
    /\ reports = <<>>
    /\ sites = <<>>
    /\ ret = <<>>
    /\ pc = "walk"

\* the reports made and the sites evaluated before the visitor runs
Before == [reports |-> reports, sites |-> sites]

\* the visitor has returned st, and the host moves to the next node
Visited(st) ==
    /\ reports' = st.reports
    /\ sites' = st.sites
    /\ agenda' = Tail(agenda)
    /\ UNCHANGED <<policy, arg, ret, pc>>

VisitCallExpression ==
    /\ pc = "walk" /\ agenda # <<>>
    /\ Head(agenda).type = "CallExpression"
    /\ Visited(onCallExpression(Before, Head(agenda)))

VisitExportNamedDeclaration ==
    /\ pc = "walk" /\ agenda # <<>>
    /\ Head(agenda).type = "ExportNamedDeclaration"
    /\ Visited(onExportNamedDeclaration(Before, Head(agenda)))

VisitExportDefaultDeclaration ==
    /\ pc = "walk" /\ agenda # <<>>
    /\ Head(agenda).type = "ExportDefaultDeclaration"
    /\ Visited(onExportDefaultDeclaration(Before, Head(agenda)))

\* a rule that also takes a declaration that is not exported for an export
VisitOtherAsExport ==
    /\ pc = "walk" /\ agenda # <<>>
    /\ Head(agenda).type \notin
           {"CallExpression", "ExportNamedDeclaration", "ExportDefaultDeclaration"}
    /\ IF Head(agenda).type \in {"VariableDeclaration", "FunctionDeclaration"}
       THEN Visited(onExportNamedDeclaration(Before, ExportNamedDeclaration(Head(agenda))))
       ELSE /\ agenda' = Tail(agenda)
            /\ UNCHANGED <<policy, reports, sites, arg, ret, pc>>

\* a node of a type no visitor is registered for
VisitOther ==
    /\ pc = "walk" /\ agenda # <<>>
    /\ Head(agenda).type \notin
           {"CallExpression", "ExportNamedDeclaration", "ExportDefaultDeclaration"}
    /\ agenda' = Tail(agenda)
    /\ UNCHANGED <<policy, reports, sites, arg, ret, pc>>

Next ==
    \/ VisitCallExpression
    \/ VisitExportNamedDeclaration
    \/ VisitExportDefaultDeclaration
    \/ VisitOther

Spec == Init /\ [][Next]_vars

\* the host hands every node of the tree to the rule: the walk is not abandoned
FairSpec == Spec /\ WF_vars(Next)

----------------------------------------------------------------------------
(* Two passes of the same rule over the same program: once the first pass   *)
(* is over, its outcome is put aside in ret and create(context) is called   *)
(* again with the same options                                             *)

Restart ==
    /\ pc = "walk" /\ agenda = <<>> /\ ret = <<>>
    /\ ret' = <<Before>>
    /\ agenda' = Traverse(arg)
    /\ reports' = <<>>
    /\ sites' = <<>>
    /\ UNCHANGED <<policy, arg, pc>>

SpecTwice == Init /\ [][Next \/ Restart]_vars

----------------------------------------------------------------------------
(* Two rule instances with different options. The host runs one visitor    *)
(* callback at a time and may run callbacks of the two instances in any     *)
(* order: policy, agenda, reports, sites and arg are those of the instance  *)
(* whose callback runs next, ret holds those of the other instance          *)

TwoPrograms ==
    {<<ExpressionStatement(CallExpression(Identifier(query),
           <<ArrowFunctionExpression(FALSE, BlockStatement(
                 <<ExpressionStatement(HasPermissionCall)>>)),
             FunctionExpression(BlockStatement(
                 <<ExpressionStatement(IsAuthenticatedCall)>>))>>))>>,
     <<ExpressionStatement(CallExpression(QueryBatch, <<NestedSiteCallback>>))>>,
     <<ExportNamedDeclaration(VariableDeclaration(
           <<VariableDeclarator(Identifier(load), ObjectExpression(
                 <<Property(Identifier(helper), ArrowFunctionExpression(TRUE, Literal)),
                   Property(Identifier(helper), FunctionExpression(BlockStatement(
                       <<ExpressionStatement(IsAuthenticatedCall)>>)))>>))>>))>>,
     <<ExportDefaultDeclaration(FunctionDeclaration(Identifier(load),
           BlockStatement(<<ExpressionStatement(IsAuthenticatedCall)>>)))>>}

\* the state of a rule instance that has visited nothing yet
Instance(p, program) ==
    [policy |-> p, arg |-> program, agenda |-> Traverse(program),
     reports |-> <<>>, sites |-> <<>>]

InitTwo ==
    /\ policy \in PassPolicies
    /\ arg \in TwoPrograms
    /\ agenda = Traverse(arg)
    /\ reports = <<>>
    /\ sites = <<>>
    /\ ret \in {<<Instance(p, program)>> :
                    p \in PassPolicies \ {policy}, program \in TwoPrograms}
    /\ pc = "walk"

\* the next callback to run is one of the other instance
SwitchInstance ==
    /\ pc = "walk"
    /\ policy' = ret[1].policy
    /\ arg' = ret[1].arg
    /\ agenda' = ret[1].agenda
    /\ reports' = ret[1].reports
    /\ sites' = ret[1].sites
    /\ ret' = <<[policy |-> policy, arg |-> arg, agenda |-> agenda,
                 reports |-> reports, sites |-> sites]>>
    /\ UNCHANGED pc

SpecTwo == InitTwo /\ [][Next \/ SwitchInstance]_vars

----------------------------------------------------------------------------
(* One pass over a program whose sites hold compound statements and other  *)
(* sites, at any depth                                                     *)

\* compound statements and functions that hold the statement s
WalkWrappers(s) ==
    {BlockStatement(<<s>>),
     IfStatement(s, NULL),
     TryStatement(BlockStatement(<<>>), CatchClause(BlockStatement(<<s>>)), NULL),
     BodyStatement("WhileStatement", s),
     SwitchStatement(<<SwitchCase(<<s>>)>>),
     ExpressionStatement(CallExpression(Identifier(helper), <<Arrow(s)>>)),
     FunctionDeclaration(Identifier(helper), BlockStatement(<<s>>))}

RECURSIVE WalkWrapped(_)
WalkWrapped(n) ==
    IF n = 0 THEN CoreStatements
    ELSE UNION {WalkWrappers(s) : s \in WalkWrapped(n - 1)}

WalkStatements == UNION {WalkWrapped(n) : n \in 1..MaxNest}

WalkPrograms ==
    {<<ExpressionStatement(CallExpression(Identifier(query),
           <<FunctionExpression(BlockStatement(<<s>>))>>))>> : s \in WalkStatements}
        \cup {<<ExportNamedDeclaration(FunctionDeclaration(Identifier(load),
                    BlockStatement(<<s>>)))>> : s \in WalkStatements}
        \cup {<<ExportDefaultDeclaration(FunctionDeclaration(Identifier(load),
                    BlockStatement(<<s>>)))>> : s \in WalkStatements}

\* helper(cb) is monitored too: a callback given to it inside a site is a site
WalkPolicies ==
    {[check |-> <<query, helper>>, checkFunctions |-> <<load>>,
      enforce |-> <<hasPermission>>, requireAll |-> FALSE]}

InitWalk ==
    /\ policy \in WalkPolicies
    /\ arg \in WalkPrograms
    /\ agenda = Traverse(arg)
    /\ reports = <<>>
    /\ sites = <<>>
    /\ ret = <<>>
    /\ pc = "walk"

SpecWalk == InitWalk /\ [][Next]_vars /\ WF_vars(Next)

----------------------------------------------------------------------------
(* Vocabulary of the properties *)

Qualified(s) == includes(s, Dot)

\* the text after the last dot of s, or s when it has no dot
LastSegment(s) ==
    IF ~Qualified(s) THEN s
    ELSE LET i == CHOOSE k \in DOMAIN s :
                     s[k] = Dot /\ \A j \in (k + 1)..Len(s) : s[j] # Dot
         IN SubSeq(s, i + 1, Len(s))

\* the expression a member-access chain is rooted at
RECURSIVE ChainBase(_)
ChainBase(callee) ==
    IF callee.type = "MemberExpression" THEN ChainBase(callee.object) ELSE callee

\* some access of the chain is written with brackets
RECURSIVE HasComputedAccess(_)
HasComputedAccess(callee) ==
    /\ callee.type = "MemberExpression"
    /\ callee.computed \/ HasComputedAccess(callee.object)

\* an identifier, or dotted identifier accesses rooted at an identifier
RECURSIVE PlainChain(_)
PlainChain(callee) ==
    \/ callee.type = "Identifier"
    \/ /\ callee.type = "MemberExpression"
       /\ ~callee.computed
       /\ callee.property.type = "Identifier"
       /\ PlainChain(callee.object)

\* the source text of a plain chain, read from the base outwards
RECURSIVE DottedName(_)
DottedName(callee) ==
    IF callee.type = "Identifier" THEN callee.name
    ELSE DottedName(callee.object) \o <<Dot>> \o callee.property.name

Reported(funcNode) == \E i \in DOMAIN reports : reports[i].node = funcNode

ThisHasPermissionCall ==
    CallExpression(MemberExpression(ThisExpression, Identifier(hasPermission), FALSE), <<>>)

\* the body of the function holds a statement, or is an expression
NonEmptyBody(fn) ==
    \/ fn.type = "ArrowFunctionExpression" /\ fn.expression
    \/ Len(fn.body.body) > 0

\* some extracted call of the function matches the enforced name
HasMatchingCall(fn, enforced) ==
    LET calls == getDirectCalls(fn)
    IN \E i \in DOMAIN calls : callMatchesEnforced(calls[i], enforced)

\* a function with its body taken away
EmptiedFunction(fn) ==
    IF fn.type = "ArrowFunctionExpression" /\ fn.expression
    THEN [fn EXCEPT !.body = Literal]
    ELSE [fn EXCEPT !.body = BlockStatement(<<>>)]

\* a statement or expression with the body of every function in it taken away
RECURSIVE StripNested(_)
StripNested(node) ==
    CASE node.type \in {"ArrowFunctionExpression", "FunctionExpression",
                        "FunctionDeclaration"} ->
             EmptiedFunction(node)
      [] node.type \in {"ExpressionStatement"} ->
             [node EXCEPT !.expression = StripNested(@)]
      [] node.type = "CallExpression" ->
             [node EXCEPT !.callee = StripNested(@),
                          !.arguments = [i \in DOMAIN @ |-> StripNested(@[i])]]
      [] node.type \in {"AwaitExpression", "ReturnStatement"} ->
             [node EXCEPT !.argument = StripNested(@)]
      [] node.type = "VariableDeclaration" ->
             [node EXCEPT !.declarations = [i \in DOMAIN @ |-> StripNested(@[i])]]
      [] node.type = "VariableDeclarator" ->
             [node EXCEPT !.init = StripNested(@)]
      [] node.type = "BlockStatement" ->
             [node EXCEPT !.body = [i \in DOMAIN @ |-> StripNested(@[i])]]
      [] node.type = "IfStatement" ->
             [node EXCEPT !.consequent = StripNested(@), !.alternate = StripNested(@)]
      [] node.type = "TryStatement" ->
             [node EXCEPT !.block = StripNested(@), !.handler = StripNested(@),
                          !.finalizer = StripNested(@)]
      [] node.type \in {"CatchClause"} \cup BodyStatementTypes ->
             [node EXCEPT !.body = StripNested(@)]
      [] node.type = "SwitchStatement" ->
             [node EXCEPT !.cases = [i \in DOMAIN @ |-> StripNested(@[i])]]
      [] node.type = "SwitchCase" ->
             [node EXCEPT !.consequent = [i \in DOMAIN @ |-> StripNested(@[i])]]
      [] OTHER -> node

\* a site with the body of every function defined inside it taken away
StripSite(fn) == [fn EXCEPT !.body = StripNested(@)]

\* the reports the rule makes for one site, starting from none
ReportsFor(fn) ==
    checkFunctionForEnforcedCalls([reports |-> <<>>, sites |-> <<>>], fn).reports

\* `() => { // hasPermission() }`
CommentOnlyCallback == ArrowFunctionExpression(FALSE, CommentOnlyBlock)

\* a function whose body is a block of zero statements
EmptyBlockBody(fn) ==
    /\ ~(fn.type = "ArrowFunctionExpression" /\ fn.expression)
    /\ fn.body.type = "BlockStatement"
    /\ Len(fn.body.body) = 0

\* the policy asks for more than the function calls
FailsPolicy(fn) ==
    IF policy.requireAll
    THEN \E j \in DOMAIN policy.enforce : ~HasMatchingCall(fn, policy.enforce[j])
    ELSE ~\E j \in DOMAIN policy.enforce : HasMatchingCall(fn, policy.enforce[j])

----------------------------------------------------------------------------
(* Properties of a pass (Spec) *)

C4_CommentOnlyCallbackReported ==
    (/\ agenda = <<>>
     /\ policy.enforce # <<>>
     /\ arg[1].type = "ExpressionStatement"
     /\ arg[1].expression \in MonitoredCalls
     /\ getCallExpressionName(arg[1].expression) \in checkSet
     /\ \E k \in DOMAIN arg[1].expression.arguments :
            arg[1].expression.arguments[k] = CommentOnlyCallback)
    => Reported(CommentOnlyCallback)

----------------------------------------------------------------------------
(* Properties of the policy evaluation of one site (SpecSite) *)

\* C1: with requireAll = false, a site with a non-empty body is reported if
\* and only if no extracted call matches any enforced name.
C1_AnyOfReportedIffNoMatch ==
    (pc = "checked" /\ ~policy.requireAll /\ NonEmptyBody(arg))
    => (Reported(arg)
          <=> ~\E j \in DOMAIN policy.enforce : HasMatchingCall(arg, policy.enforce[j]))

C1_Witness ==
    /\ pc = "checked"
    /\ ~policy.requireAll
    /\ policy.enforce = <<hasPermission, isAuthenticated>>
    /\ arg = ArrowFunctionExpression(FALSE,
                 BlockStatement(<<CallStatement(Identifier(isAuthenticated))>>))
    /\ reports = <<>>

\* C2: with requireAll = true, a site with a non-empty body is reported if
\* and only if some enforced name has no matching extracted call; a site that
\* calls only some of the enforced names is reported.
C2_AllOfReportedIffSomeNameUnmatched ==
    (pc = "checked" /\ policy.requireAll /\ NonEmptyBody(arg))
    => (Reported(arg)
          <=> \E j \in DOMAIN policy.enforce : ~HasMatchingCall(arg, policy.enforce[j]))

C2_Witness ==
    /\ pc = "checked"
    /\ policy.requireAll
    /\ policy.enforce = <<hasPermission, isAuthenticated>>
    /\ arg = ArrowFunctionExpression(FALSE,
                 BlockStatement(<<CallStatement(Identifier(hasPermission))>>))
    /\ Len(reports) = 1
    /\ reports[1].node = arg

----------------------------------------------------------------------------
(* Properties of the call extractor (SpecExtract) *)

\* C10: the calls made inside a function defined within the body of a site
\* (function declaration, function expression or arrow function, at any depth,
\* the helper being invoked or not) are not extracted: the extracted calls, and
\* whether the site is reported, are those of the site with every nested
\* function body taken away.
C10_NestedFunctionCallsNotCollected ==
    /\ pc # "start" => ret = <<getDirectCalls(StripSite(arg))>>
    /\ pc = "checked" => Len(reports) = Len(ReportsFor(StripSite(arg)))

C10_Witness ==
    /\ pc = "checked"
    /\ policy.enforce = <<hasPermission>>
    /\ arg = FunctionExpression(BlockStatement(
                 <<FunctionDeclaration(Identifier(helper),
                       BlockStatement(<<CallStatement(Identifier(hasPermission))>>)),
                   CallStatement(Identifier(helper))>>))
    /\ ret = <<<<helper>>>>
    /\ Len(reports) = 1

----------------------------------------------------------------------------
(* Properties of the name resolver (SpecName) *)

\* C5: a call whose member-access chain is rooted at something other than a
\* plain identifier (this, a call result, a function) resolves to null, and a
\* callback whose only call is such a call is reported.
C5_NonIdentifierBaseUnresolvable ==
    (pc # "start" /\ arg.type = "CallExpression"
        /\ ChainBase(arg.callee).type # "Identifier")
    => /\ ret = <<null>>
       /\ pc = "checked" => Reported(CallbackOf(arg))

C5_Witness ==
    /\ pc = "checked"
    /\ arg = ThisHasPermissionCall
    /\ ret = <<null>>
    /\ Len(reports) = 1

\* C6 (as claimed): a call whose chain contains a computed (bracket) access
\* resolves to null, never to a name built from part of the chain.
C6_ComputedAccessUnresolvable ==
    (pc # "start" /\ arg.type = "CallExpression" /\ HasComputedAccess(arg.callee))
    => ret = <<null>>

\* C7: a call whose target is an identifier resolves to that identifier, and a
\* chain of dotted identifier accesses rooted at an identifier resolves to all
\* its segments joined with "." in source order, at every depth.
C7_PlainChainResolvesToDottedName ==
    (pc # "start" /\ arg.type = "CallExpression" /\ PlainChain(arg.callee))
    => ret = <<DottedName(arg.callee)>>

C7_Witness ==
    /\ pc = "resolved"
    /\ arg = CallExpression(
                 MemberExpression(
                     MemberExpression(Identifier(auth), Identifier(batch), FALSE),
                     Identifier(hasPermission), FALSE),
                 <<>>)
    /\ ret = <<<<"a", ".", "b", ".", "h">>>>

----------------------------------------------------------------------------
(* Properties of the name matcher (SpecMatch) *)

\* C8: equal names match; an unqualified enforced name is matched by a dotted
\* call name whose final segment equals it, whatever the number of qualifier
\* segments; a call name (dotted or not) whose final segment differs from that
\* of the enforced name does not match.
C8_MatchesEqualOrFinalSegment ==
    pc = "matched" =>
        /\ arg.call = arg.enforce => ret = <<TRUE>>
        /\ (~Qualified(arg.enforce) /\ Qualified(arg.call)
               /\ LastSegment(arg.call) = arg.enforce) => ret = <<TRUE>>
        /\ LastSegment(arg.call) # LastSegment(arg.enforce) => ret = <<FALSE>>

C8_Witness ==
    /\ pc = "matched"
    /\ arg.call = <<"a", ".", "a", ".", "h">>
    /\ arg.enforce = <<"h">>
    /\ ret = <<TRUE>>

\* C9: a qualified enforced name is matched by the equal call name only:
\* neither its unqualified final segment nor a longer qualified name matches.
C9_QualifiedEnforcedExactOnly ==
    (pc = "matched" /\ Qualified(arg.enforce))
    => (ret = <<TRUE>> <=> arg.call = arg.enforce)

C9_Witness ==
    /\ pc = "matched"
    /\ arg.call = <<"a", ".", "a", ".", "h">>
    /\ arg.enforce = <<"a", ".", "h">>
    /\ ret = <<FALSE>>

----------------------------------------------------------------------------
(* Properties of the traversal of compound statements (SpecExtract) *)

\* the statement is the call name(), or a compound statement (block, if / else,
\* try / catch / finally, loop, switch case, labeled statement) that holds such
\* a statement at some depth, with no function boundary in between
RECURSIVE HoldsDirectCall(_, _)
HoldsDirectCall(statement, name) ==
    CASE statement.type = "ExpressionStatement" ->
             statement.expression = CallExpression(Identifier(name), <<>>)
      [] statement.type = "BlockStatement" ->
             \E i \in DOMAIN statement.body : HoldsDirectCall(statement.body[i], name)
      [] statement.type = "IfStatement" ->
             \/ HoldsDirectCall(statement.consequent, name)
             \/ HoldsDirectCall(statement.alternate, name)
      [] statement.type = "TryStatement" ->
             \/ HoldsDirectCall(statement.block, name)
             \/ HoldsDirectCall(statement.handler, name)
             \/ HoldsDirectCall(statement.finalizer, name)
      [] statement.type \in {"CatchClause", "ForStatement", "ForInStatement",
                             "ForOfStatement", "WhileStatement", "DoWhileStatement",
                             "LabeledStatement"} ->
             HoldsDirectCall(statement.body, name)
      [] statement.type = "SwitchStatement" ->
             \E c \in DOMAIN statement.cases :
                 \E i \in DOMAIN statement.cases[c].consequent :
                     HoldsDirectCall(statement.cases[c].consequent[i], name)
      [] OTHER -> FALSE

\* C11: a direct call statement nested at any depth inside compound statements
\* of the body (if and else branches, try block, catch body, finally block,
\* for / for-in / for-of / while / do-while bodies, switch case consequents,
\* labeled statements, nested blocks) is among the extracted calls, and the
\* site whose policy asks for that call alone is not reported.
C11_CompoundStatementCallsCollected ==
    (/\ pc # "start"
     /\ arg.body.type = "BlockStatement"
     /\ \E i \in DOMAIN arg.body.body : HoldsDirectCall(arg.body.body[i], hasPermission))
    => /\ \E k \in DOMAIN ret[1] : ret[1][k] = hasPermission
       /\ (pc = "checked" /\ policy.enforce = <<hasPermission>>) => reports = <<>>

C11_Witness ==
    /\ pc = "checked"
    /\ policy.enforce = <<hasPermission>>
    /\ arg = FunctionExpression(BlockStatement(
                 <<IfStatement(BlockStatement(<<>>),
                       BodyStatement("WhileStatement",
                           CallStatement(Identifier(hasPermission))))>>))
    /\ ret = <<<<hasPermission>>>>
    /\ reports = <<>>

----------------------------------------------------------------------------
(* Properties of the handling of await (SpecExtract) *)

\* `await f()` becomes `f()`; any other expression is left as written
AwaitedCall(e) ==
    IF e.type = "AwaitExpression" /\ e.argument.type = "CallExpression"
    THEN e.argument
    ELSE e

\* the statement with `await f()` replaced by `f()` in every expression
\* statement, variable initializer and return value
RECURSIVE WithoutAwaitedCalls(_)
WithoutAwaitedCalls(node) ==
    CASE node.type = "ExpressionStatement" ->
             [node EXCEPT !.expression = AwaitedCall(@)]
      [] node.type = "ReturnStatement" ->
             [node EXCEPT !.argument = AwaitedCall(@)]
      [] node.type = "VariableDeclaration" ->
             [node EXCEPT !.declarations = [i \in DOMAIN @ |-> WithoutAwaitedCalls(@[i])]]
      [] node.type = "VariableDeclarator" ->
             [node EXCEPT !.init = AwaitedCall(@)]
      [] node.type = "BlockStatement" ->
             [node EXCEPT !.body = [i \in DOMAIN @ |-> WithoutAwaitedCalls(@[i])]]
      [] node.type = "IfStatement" ->
             [node EXCEPT !.consequent = WithoutAwaitedCalls(@),
                          !.alternate = WithoutAwaitedCalls(@)]
      [] node.type = "TryStatement" ->
             [node EXCEPT !.block = WithoutAwaitedCalls(@),
                          !.handler = WithoutAwaitedCalls(@),
                          !.finalizer = WithoutAwaitedCalls(@)]
      [] node.type \in {"CatchClause"} \cup BodyStatementTypes ->
             [node EXCEPT !.body = WithoutAwaitedCalls(@)]
      [] node.type = "SwitchStatement" ->
             [node EXCEPT !.cases = [i \in DOMAIN @ |-> WithoutAwaitedCalls(@[i])]]
      [] node.type = "SwitchCase" ->
             [node EXCEPT !.consequent = [i \in DOMAIN @ |-> WithoutAwaitedCalls(@[i])]]
      [] OTHER -> node

\* the site with `await f()` replaced by `f()` in the four positions
WithoutAwaitedCallsSite(fn) ==
    IF fn.type = "ArrowFunctionExpression" /\ fn.expression
    THEN [fn EXCEPT !.body = AwaitedCall(@)]
    ELSE [fn EXCEPT !.body = WithoutAwaitedCalls(@)]

\* the expression of the one statement of the body (expression statement,
\* initializer of the one declarator, return value), or the expression body
SoleExpression(fn) ==
    IF fn.type = "ArrowFunctionExpression" /\ fn.expression THEN fn.body
    ELSE IF Len(fn.body.body) # 1 THEN NULL
    ELSE LET s == fn.body.body[1]
         IN CASE s.type = "ExpressionStatement" -> s.expression
              [] s.type = "ReturnStatement" -> s.argument
              [] s.type = "VariableDeclaration" /\ Len(s.declarations) = 1 ->
                     s.declarations[1].init
              [] OTHER -> NULL

\* C12: `await f()` is extracted as `f()` is, as an expression statement, a
\* variable initializer, a return value and an arrow expression body; one
\* await is unwrapped and no more, so `await await f()` yields no call, and
\* `await f` where f is not invoked yields no call.
C12_AwaitedCallLikeCall ==
    pc # "start" =>
        /\ ret = <<getDirectCalls(WithoutAwaitedCallsSite(arg))>>
        /\ (SoleExpression(arg).type = "AwaitExpression"
               /\ SoleExpression(arg).argument.type # "CallExpression")
           => ret = <<<<>>>>
        /\ (SoleExpression(arg).type = "AwaitExpression"
               /\ SoleExpression(arg).argument = HasPermissionCall)
           => ret = <<<<hasPermission>>>>

C12_Witness ==
    /\ pc = "checked"
    /\ policy.enforce = <<hasPermission>>
    /\ arg = FunctionExpression(BlockStatement(
                 <<ReturnStatement(AwaitExpression(HasPermissionCall))>>))
    /\ ret = <<<<hasPermission>>>>
    /\ reports = <<>>

----------------------------------------------------------------------------
(* Properties of the detection of sites (Spec) *)

\* the nodes the reports are anchored at, in the order they were made
NodesOf(rs) == [i \in DOMAIN rs |-> rs[i].node]

\* an arrow function or a function expression
FunctionValued(node) == node.type \in {"ArrowFunctionExpression", "FunctionExpression"}

\* a function that has a body and fails the policy
FailingSite(fn) == ~EmptyBlockBody(fn) /\ FailsPolicy(fn)

\* the name of the call, read from the source text, is configured in `check`
MonitoredCall(call) ==
    /\ PlainChain(call.callee)
    /\ \E k \in DOMAIN policy.check : policy.check[k] = DottedName(call.callee)

\* the host is about to hand a node of the given type to its visitor
Visiting(type) == pc = "walk" /\ agenda # <<>> /\ Head(agenda).type = type

\* C13: when a call whose name is in check is visited, each argument that is
\* an arrow function or a function expression is evaluated as a site of its
\* own, in every argument position and whatever its siblings are, and each
\* failing one is reported at that argument; the other arguments, and a call
\* with no arguments, add no report.
C13_EachFunctionArgumentIsASite ==
    [][(Visiting("CallExpression") /\ MonitoredCall(Head(agenda)))
       => LET fns == SelectSeq(Head(agenda).arguments, FunctionValued)
          IN /\ sites' = sites \o fns
             /\ NodesOf(reports') = NodesOf(reports) \o SelectSeq(fns, FailingSite)]_vars

C13_Witness ==
    /\ agenda = <<>>
    /\ policy.check = <<query>>
    /\ policy.enforce = <<hasPermission>>
    /\ arg = <<ExpressionStatement(CallExpression(Identifier(query),
                  <<ArrowFunctionExpression(FALSE, BlockStatement(
                        <<ExpressionStatement(HasPermissionCall)>>)),
                    FunctionExpression(BlockStatement(
                        <<ExpressionStatement(IsAuthenticatedCall)>>))>>))>>
    /\ Len(sites) = 2
    /\ NodesOf(reports) = <<FunctionExpression(BlockStatement(
                                <<ExpressionStatement(IsAuthenticatedCall)>>))>>

\* C14: a call is monitored only when its dotted name equals an entry of
\* check: the visit of any other call evaluates no site and makes no report.
\* With check = [query] the call query.batch(cb) is not monitored, with
\* check = [query.batch] the call query(cb) is not, and with check = [batch]
\* the call query.batch(cb) is not.
C14_MonitoredNameMustBeEqual ==
    [][(/\ Visiting("CallExpression")
        /\ PlainChain(Head(agenda).callee)
        /\ ~MonitoredCall(Head(agenda)))
       => (sites' = sites /\ reports' = reports)]_vars

C14_Witness ==
    /\ agenda = <<>>
    /\ policy.check = <<query>>
    /\ policy.enforce = <<hasPermission>>
    /\ arg = <<ExpressionStatement(CallExpression(QueryBatch,
                  <<ArrowFunctionExpression(TRUE, Literal)>>))>>
    /\ sites = <<>>
    /\ reports = <<>>

\* the name is configured in checkFunctions
MonitoredFunctionName(name) ==
    \E k \in DOMAIN policy.checkFunctions : policy.checkFunctions[k] = name

TypeWrapperTypes == {"TSSatisfiesExpression", "TSAsExpression", "TSTypeAssertion"}

\* an export of a function declaration, of variables initialized to something
\* that is neither an object literal nor a type assertion, or of anything else
PlainExport(node) ==
    node.declaration.type = "VariableDeclaration" =>
        \A i \in DOMAIN node.declaration.declarations :
            node.declaration.declarations[i].init.type
                \notin TypeWrapperTypes \cup {"ObjectExpression"}

\* the functions a plain export binds to a monitored name, in source order
ExportedFunctions(node) ==
    LET d == node.declaration
        Bound(decl) == MonitoredFunctionName(decl.id.name) /\ FunctionValued(decl.init)
    IN IF d.type = "FunctionDeclaration"
       THEN IF d.id.type = "Identifier" /\ MonitoredFunctionName(d.id.name)
            THEN <<d>>
            ELSE <<>>
       ELSE IF node.type = "ExportNamedDeclaration" /\ d.type = "VariableDeclaration"
       THEN LET ds == SelectSeq(d.declarations, Bound)
            IN [i \in DOMAIN ds |-> ds[i].init]
       ELSE <<>>

\* C15: `export function f`, `export const f = <arrow or function
\* expression>` and `export default function f`, with f in checkFunctions,
\* make the function a site that is skipped when empty and reported when it
\* fails the policy, as a callback is; an exported function whose name is not
\* in checkFunctions is no site and is not reported.
C15_ExportedFunctionIsASite ==
    [][(/\ Visiting("ExportNamedDeclaration") \/ Visiting("ExportDefaultDeclaration")
        /\ PlainExport(Head(agenda)))
       => LET fns == ExportedFunctions(Head(agenda))
          IN /\ sites' = sites \o fns
             /\ NodesOf(reports') = NodesOf(reports) \o SelectSeq(fns, FailingSite)]_vars

C15_Witness ==
    /\ agenda = <<>>
    /\ policy.checkFunctions = <<load>>
    /\ policy.enforce = <<hasPermission>>
    /\ arg = <<ExportDefaultDeclaration(FunctionDeclaration(Identifier(load),
                  BlockStatement(<<ExpressionStatement(IsAuthenticatedCall)>>)))>>
    /\ sites = <<arg[1].declaration>>
    /\ NodesOf(reports) = <<arg[1].declaration>>

\* the expression inside its type assertions (satisfies, as, <T>)
RECURSIVE Unwrapped(_)
Unwrapped(e) == IF e.type \in TypeWrapperTypes THEN Unwrapped(e.expression) ELSE e

\* a property (not a spread) whose value is a function: `k: () => ...`,
\* `k: function () {}`, or the method shorthand `k() {}`, whose value is a
\* function expression too
FunctionProperty(p) == p.type = "Property" /\ FunctionValued(Unwrapped(p.value))

\* the function values of the properties of an object literal, in source order
ObjectFunctions(object) ==
    LET ps == SelectSeq(object.properties, FunctionProperty)
    IN [i \in DOMAIN ps |-> Unwrapped(ps[i].value)]

\* the function properties of the object literals bound to monitored names
RECURSIVE ExportedObjectFunctions(_)
ExportedObjectFunctions(declarations) ==
    IF declarations = <<>> THEN <<>>
    ELSE (IF MonitoredFunctionName(Head(declarations).id.name)
          THEN ObjectFunctions(Head(declarations).init)
          ELSE <<>>)
             \o ExportedObjectFunctions(Tail(declarations))

\* an export of variables that are each initialized to an object literal
ObjectExport(node) ==
    /\ node.declaration.type = "VariableDeclaration"
    /\ \A i \in DOMAIN node.declaration.declarations :
           node.declaration.declarations[i].init.type = "ObjectExpression"

\* C16: when an exported variable with a name in checkFunctions is initialized
\* to an object literal, each property whose value is a function (arrow,
\* function expression, method shorthand) is a site of its own: each failing
\* non-empty one yields exactly one report, anchored at the function of that
\* property; passing or empty function properties, and properties that are
\* not functions, yield none; the siblings of a property do not matter.
C16_EachFunctionPropertyIsASite ==
    [][(Visiting("ExportNamedDeclaration") /\ ObjectExport(Head(agenda)))
       => LET fns == ExportedObjectFunctions(Head(agenda).declaration.declarations)
          IN /\ sites' = sites \o fns
             /\ NodesOf(reports') = NodesOf(reports) \o SelectSeq(fns, FailingSite)]_vars

C16_Witness ==
    /\ agenda = <<>>
    /\ policy.checkFunctions = <<load>>
    /\ policy.enforce = <<hasPermission, isAuthenticated>>
    /\ arg = <<ExportNamedDeclaration(VariableDeclaration(
                  <<VariableDeclarator(Identifier(load), ObjectExpression(
                        <<Property(Identifier(helper), ArrowFunctionExpression(FALSE,
                              BlockStatement(<<ExpressionStatement(HasPermissionCall)>>))),
                          Property(Identifier(helper), FunctionExpression(
                              BlockStatement(<<ExpressionStatement(IsAuthenticatedCall)>>)))
                        >>))>>))>>
    /\ Len(sites) = 2
    /\ Len(reports) = 2
    /\ reports[1].node = arg[1].declaration.declarations[1].init.properties[1].value
    /\ reports[2].node = arg[1].declaration.declarations[1].init.properties[2].value

\* a declaration, not exported, that binds a monitored name to a function
NonExportedMonitored(statement) ==
    \/ /\ statement.type = "FunctionDeclaration"
       /\ MonitoredFunctionName(statement.id.name)
    \/ /\ statement.type = "VariableDeclaration"
       /\ \E i \in DOMAIN statement.declarations :
              /\ MonitoredFunctionName(statement.declarations[i].id.name)
              /\ FunctionValued(statement.declarations[i].init)

\* the walk has not gone past the first statement of the program
WithinFirstStatement == Len(agenda) >= Len(Traverse(Tail(arg)))

\* C17: a binding that is not exported is no site of the function-name mode,
\* even when its name is in checkFunctions: once `const load = () => { ... }`
\* or `function load() { ... }`, with no enforced call, has been walked, no
\* site has been evaluated and no report made.
C17_NonExportedBindingIsNoSite ==
    (pc = "walk" /\ NonExportedMonitored(arg[1]) /\ WithinFirstStatement)
    => (sites = <<>> /\ reports = <<>>)

C17_Witness ==
    /\ agenda = <<>>
    /\ policy.checkFunctions = <<load>>
    /\ policy.enforce = <<hasPermission>>
    /\ arg = <<VariableDeclaration(<<VariableDeclarator(Identifier(load),
                  ArrowFunctionExpression(FALSE, BlockStatement(
                      <<ExpressionStatement(IsAuthenticatedCall)>>)))>>)>>
    /\ sites = <<>>
    /\ reports = <<>>

\* an initializer without the type assertions around it and, when it is an
\* object literal, without those around the values of its properties
WithoutTypeAssertionsInit(init) ==
    LET u == Unwrapped(init)
    IN IF u.type = "ObjectExpression"
       THEN [u EXCEPT !.properties =
                [i \in DOMAIN @ |->
                    IF @[i].type = "Property"
                    THEN [@[i] EXCEPT !.value = Unwrapped(@)]
                    ELSE @[i]]]
       ELSE u

\* an export with the type assertions of its initializers taken away
WithoutTypeAssertions(node) ==
    IF node.declaration.type = "VariableDeclaration"
    THEN [node EXCEPT !.declaration.declarations =
             [i \in DOMAIN @ |-> [@[i] EXCEPT !.init = WithoutTypeAssertionsInit(@)]]]
    ELSE node

\* the export holds a type assertion around an initializer or a property value
HasTypeAssertion(node) == WithoutTypeAssertions(node) # node

\* C18: an exported initializer inside any number of nested type assertions
\* (satisfies, as, <T>) is evaluated as the function or object literal inside
\* them would be, and so is each property value of an exported object: the
\* sites evaluated and the reports made are those of the export with its type
\* assertions taken away.
C18_TypeAssertionsAreTransparent ==
    [][Visiting("ExportNamedDeclaration")
       => LET st == onExportNamedDeclaration(Before, WithoutTypeAssertions(Head(agenda)))
          IN sites' = st.sites /\ reports' = st.reports]_vars

C18_Witness ==
    /\ agenda = <<>>
    /\ policy.checkFunctions = <<load>>
    /\ policy.enforce = <<hasPermission>>
    /\ arg = <<ExportNamedDeclaration(VariableDeclaration(
                  <<VariableDeclarator(Identifier(load),
                        TSSatisfiesExpression(TSTypeAssertion(ObjectExpression(
                            <<Property(Identifier(helper),
                                  TSAsExpression(TSTypeAssertion(
                                      ArrowFunctionExpression(TRUE, Literal))))>>))))>>))>>
    /\ HasTypeAssertion(arg[1])
    /\ NodesOf(reports) = <<ArrowFunctionExpression(TRUE, Literal)>>

----------------------------------------------------------------------------
(* Properties of the content of a report (SpecSite) *)

\* the names written one after the other, with ", " between two of them
RECURSIVE CommaJoined(_)
CommaJoined(names) ==
    IF names = <<>> THEN <<>>
    ELSE IF Len(names) = 1 THEN names[1]
    ELSE names[1] \o <<",", " ">> \o CommaJoined(Tail(names))

\* C19: every report has the message missingAll when requireAll is true and
\* missingAtLeastOne otherwise, and its data is the whole enforce list joined
\* with ", " in configured order, the names the site does call included.
C19_ReportNamesEveryEnforcedName ==
    \A i \in DOMAIN reports :
        /\ reports[i].messageId =
               (IF policy.requireAll THEN "missingAll" ELSE "missingAtLeastOne")
        /\ reports[i].data.functions = CommaJoined(policy.enforce)

C19_Witness ==
    /\ pc = "checked"
    /\ policy.requireAll
    /\ policy.enforce = <<hasPermission, isAuthenticated>>
    /\ arg = ArrowFunctionExpression(FALSE,
                 BlockStatement(<<CallStatement(Identifier(hasPermission))>>))
    /\ Len(reports) = 1
    /\ reports[1].messageId = "missingAll"
    /\ reports[1].data.functions = <<"h", ",", " ", "i">>

----------------------------------------------------------------------------
(* Properties of a whole pass (FairSpec) *)

\* the functions bound by an initializer: the function inside its type
\* assertions, or the function properties of the object literal inside them
InitializerFunctions(init) ==
    LET u == Unwrapped(init)
    IN IF FunctionValued(u) THEN <<u>>
       ELSE IF u.type = "ObjectExpression" THEN ObjectFunctions(u)
       ELSE <<>>

\* the functions of the declarators that bind a monitored name
RECURSIVE DeclaredFunctions(_)
DeclaredFunctions(declarations) ==
    IF declarations = <<>> THEN <<>>
    ELSE (IF MonitoredFunctionName(Head(declarations).id.name)
          THEN InitializerFunctions(Head(declarations).init)
          ELSE <<>>)
             \o DeclaredFunctions(Tail(declarations))

\* the monitored sites a node of the tree gives rise to
SitesAt(node) ==
    CASE node.type = "CallExpression" ->
             IF MonitoredCall(node)
             THEN SelectSeq(node.arguments, FunctionValued)
             ELSE <<>>
      [] node.type \in {"ExportNamedDeclaration", "ExportDefaultDeclaration"} ->
             IF node.declaration.type = "FunctionDeclaration"
             THEN IF node.declaration.id.type = "Identifier"
                     /\ MonitoredFunctionName(node.declaration.id.name)
                  THEN <<node.declaration>>
                  ELSE <<>>
             ELSE IF node.type = "ExportNamedDeclaration"
                     /\ node.declaration.type = "VariableDeclaration"
             THEN DeclaredFunctions(node.declaration.declarations)
             ELSE <<>>
      [] OTHER -> <<>>

\* the monitored sites of the given nodes, in order
RECURSIVE SitesIn(_)
SitesIn(nodes) ==
    IF nodes = <<>> THEN <<>> ELSE SitesAt(Head(nodes)) \o SitesIn(Tail(nodes))

\* every monitored site of the program, nested ones included, in walk order
SitesOfProgram == SitesIn(Traverse(arg))

\* the pass is over, each site of the program has been evaluated once and
\* each failing non-empty one has been reported once
PassComplete ==
    /\ agenda = <<>>
    /\ sites = SitesOfProgram
    /\ NodesOf(reports) = SelectSeq(SitesOfProgram, FailingSite)

\* C20: in one pass every monitored site is evaluated exactly once and yields
\* at most one report, and a report neither ends the pass nor suppresses a
\* later one: the pass comes to its end, and from then on the reports are
\* exactly the failing non-empty sites of the tree, one report each, the
\* sites inside other monitored callbacks included.
C20_OneReportPerFailingSite == <>[]PassComplete

C20_Witness ==
    /\ agenda = <<>>
    /\ policy.check = <<query>>
    /\ policy.enforce = <<hasPermission>>
    /\ arg = <<ExpressionStatement(CallExpression(Identifier(query),
                  <<NestedSiteCallback>>)),
               ExpressionStatement(CallExpression(Identifier(query),
                  <<ArrowFunctionExpression(FALSE, BlockStatement(
                        <<ExpressionStatement(IsAuthenticatedCall)>>))>>))>>
    /\ Len(sites) = 3
    /\ Len(reports) = 3

----------------------------------------------------------------------------
(* Properties of two passes over the same program (SpecTwice) *)

\* the second pass is over
SecondPassOver == pc = "walk" /\ agenda = <<>> /\ ret # <<>>

----------------------------------------------------------------------------
(* Properties of the extractor on type assertions (SpecExtract) *)

\* C22 (as claimed): an invocation inside a type assertion, as in
\* `hasPermission() as T`, written as an expression statement, a variable
\* initializer, a return value or an arrow expression body, is unwrapped by
\* the call extractor and its name is extracted.
C22_TypeAssertedCallCollected ==
    (/\ pc # "start"
     /\ SoleExpression(arg).type \in TypeWrapperTypes
     /\ Unwrapped(SoleExpression(arg)) = HasPermissionCall)
    => ret = <<<<hasPermission>>>>

----------------------------------------------------------------------------
(* Properties of a site without any direct call (SpecExtract) *)

\* C23: with no extracted call and at least one enforced name the policy is
\* not satisfied, whether requireAll is true or false; so a site with a body
\* that yields no direct call (only `const x = 1`, the bare reference
\* `hasPermission`, or `await hasPermission`) is reported.
C23_NoCallNeverSatisfies ==
    (pc # "start" /\ ret = <<<<>>>> /\ policy.enforce # <<>>)
    => /\ ~checkEnforcedCalls(<<>>, policy.enforce, TRUE)
       /\ ~checkEnforcedCalls(<<>>, policy.enforce, FALSE)
       /\ (pc = "checked" /\ NonEmptyBody(arg)) => Reported(arg)

C23_Witness ==
    /\ pc = "checked"
    /\ policy.requireAll
    /\ arg = FunctionExpression(BlockStatement(
                 <<ExpressionStatement(AwaitExpression(Identifier(hasPermission)))>>))
    /\ ret = <<<<>>>>
    /\ Len(reports) = 1
    /\ reports[1].node = arg

----------------------------------------------------------------------------
(* Properties of the extracted sequence (SpecExtract) *)

\* a statement that is a call and nothing else
CallOnly(statement) ==
    statement.type = "ExpressionStatement" /\ statement.expression.type = "CallExpression"

\* the names of the calls of the statements whose target is a chain of
\* identifiers, one entry per call, in the order of the statements
RECURSIVE NamesInOrder(_)
NamesInOrder(statements) ==
    IF statements = <<>> THEN <<>>
    ELSE (IF PlainChain(Head(statements).expression.callee)
          THEN <<DottedName(Head(statements).expression.callee)>>
          ELSE <<>>)
             \o NamesInOrder(Tail(statements))

\* a block-bodied function whose statements are calls and nothing else
BodyOfCalls(fn) ==
    /\ fn.body.type = "BlockStatement"
    /\ \A i \in DOMAIN fn.body.body : CallOnly(fn.body.body[i])

\* C24: the extracted sequence holds resolved names only, in source order
\* and with duplicates kept; a call whose target does not resolve adds no
\* entry and does not keep the other calls of the body from being extracted
\* or from satisfying the policy.
C24_ResolvedNamesInSourceOrder ==
    pc # "start" =>
        /\ \A k \in DOMAIN ret[1] : ret[1][k] # null /\ ret[1][k] # <<>>
        /\ BodyOfCalls(arg) => ret[1] = NamesInOrder(arg.body.body)
        /\ (/\ pc = "checked"
            /\ BodyOfCalls(arg)
            /\ policy.enforce = <<hasPermission>>
            /\ \E i \in DOMAIN arg.body.body : arg.body.body[i].expression = HasPermissionCall)
           => reports = <<>>

C24_Witness ==
    /\ pc = "checked"
    /\ policy.enforce = <<hasPermission>>
    /\ arg = FunctionExpression(BlockStatement(
                 <<ExpressionStatement(ThisHasPermissionCall),
                   CallStatement(Identifier(hasPermission))>>))
    /\ ret = <<<<hasPermission>>>>
    /\ reports = <<>>

----------------------------------------------------------------------------
(* Properties of an immediately invoked function given as argument (Spec) *)

\* C25 (as claimed): when an argument of a monitored call is an immediately
\* invoked function, as in query((() => { helper() })()), the body of the
\* invoked function is checked against the policy: the function is evaluated
\* as a site and, failing the policy, is reported.
C25_InvokedFunctionArgumentChecked ==
    (/\ agenda = <<>>
     /\ arg[1] = ExpressionStatement(CallExpression(Identifier(query), <<InvokedFunction>>))
     /\ policy.check = <<query>>
     /\ policy.enforce # <<>>)
    => /\ \E i \in DOMAIN sites : sites[i] = InvokedFunction.callee
       /\ Reported(InvokedFunction.callee)

----------------------------------------------------------------------------
(* Properties of two interleaved rule instances (SpecTwo) *)

\* C26: two rule instances with different policies, whose visitor callbacks
\* run interleaved in any order over the same tree or over different trees,
\* each make the reports they make when run alone: when the pass of an
\* instance is over, however the callbacks of the other were interleaved
\* with its own, it has evaluated the monitored sites of its tree under its
\* own policy, once each, and has reported the failing ones with its own
\* message and its own enforced names.
C26_InstancesDoNotInterfere ==
    (pc = "walk" /\ agenda = <<>>)
    => /\ PassComplete
       /\ \A i \in DOMAIN reports :
              /\ reports[i].messageId =
                     (IF policy.requireAll THEN "missingAll" ELSE "missingAtLeastOne")
              /\ reports[i].data.functions = CommaJoined(policy.enforce)

C26_Witness ==
    /\ pc = "walk"
    /\ agenda = <<>>
    /\ ret[1].agenda = <<>>
    /\ arg = ret[1].arg
    /\ policy.check = <<query>>
    /\ ret[1].policy.check = <<>>
    /\ Len(reports) = 1
    /\ Len(sites) = 2
    /\ ret[1].sites = <<>>

----------------------------------------------------------------------------
(* Properties of the work done in a pass (SpecWalk) *)

StatementTypes ==
    {"ExpressionStatement", "VariableDeclaration", "ReturnStatement", "BlockStatement",
     "IfStatement", "TryStatement", "SwitchStatement", "FunctionDeclaration"}
        \cup BodyStatementTypes

FunctionTypes == {"ArrowFunctionExpression", "FunctionExpression", "FunctionDeclaration"}

\* the nodes below and including the given ones, in source order, those
\* inside a function among them left out
RECURSIVE OutsideFunctions(_)
OutsideFunctions(nodes) ==
    IF nodes = <<>> THEN <<>>
    ELSE IF ~present(Head(nodes)) THEN OutsideFunctions(Tail(nodes))
    ELSE <<Head(nodes)>>
             \o (IF Head(nodes).type \in FunctionTypes THEN <<>>
                 ELSE OutsideFunctions(Children(Head(nodes))))
             \o OutsideFunctions(Tail(nodes))

IsStatement(node) == node.type \in StatementTypes

\* the statements whose innermost enclosing function is fn, in source order
OwnStatements(fn) ==
    IF fn.body.type = "BlockStatement"
    THEN SelectSeq(OutsideFunctions(fn.body.body), IsStatement)
    ELSE <<>>

\* the number of statements traversed for the given sites
RECURSIVE VisitedCount(_)
VisitedCount(fns) ==
    IF fns = <<>> THEN 0
    ELSE Len(visitedByGetDirectCalls(Head(fns))) + VisitedCount(Tail(fns))

\* the statements traversed for a site are those of the site itself, once
\* each, and the statements traversed in the pass are no more than the tree has
StatementsVisitedOnce ==
    /\ \A i \in DOMAIN sites : visitedByGetDirectCalls(sites[i]) = OwnStatements(sites[i])
    /\ VisitedCount(sites) <= Len(SelectSeq(Traverse(arg), IsStatement))

\* C27: a pass over a finite tree terminates, each step of it taking one
\* node off the nodes left to visit, and the call extractor traverses each
\* statement at most once per pass: for a site it traverses the statements
\* whose innermost enclosing function is that site, and not those of the
\* functions inside it, which are traversed when those are sites themselves.
C27_PassTerminatesStatementsOnce ==
    /\ <>[](agenda = <<>>)
    /\ [][Len(agenda') < Len(agenda)]_vars
    /\ []StatementsVisitedOnce

C27_Witness ==
    /\ agenda = <<>>
    /\ arg = <<ExpressionStatement(CallExpression(Identifier(query),
                  <<FunctionExpression(BlockStatement(
                        <<IfStatement(ExpressionStatement(CallExpression(Identifier(helper),
                              <<Arrow(CallStatement(Identifier(hasPermission)))>>)),
                          NULL)>>))>>))>>
    /\ Len(sites) = 2
    /\ VisitedCount(sites) = 3
    /\ Len(reports) = 1

\* the body of the function under extraction, when it is a block
BlockBodyOf(node) ==
    IF node.type # "ArrowFunctionExpression" \/ ~node.expression
    THEN node.body.body ELSE <<>>

\* the function's body starts with a statement that calls hasPermission only
\* in a position other than the four collected ones, and no later statement
\* calls it
OnlyUncollectedCall ==
    /\ BlockBodyOf(arg) # <<>>
    /\ Head(BlockBodyOf(arg)) \in UncollectedPositions
    /\ \A k \in 2..Len(BlockBodyOf(arg)) :
           BlockBodyOf(arg)[k] # CallStatement(Identifier(hasPermission))

\* C28: an enforced call used as an if / while / switch condition, in a
\* for-loop header, as an argument of another call, as the object of a chained
\* call, as an assignment right-hand side or as an operand is not collected
\* (a call that takes it as argument is collected under its own name), so a
\* site whose only enforced call is in such a position is reported
C28_OnlyWholeExpressionCallsCollected ==
    (pc # "start" /\ OnlyUncollectedCall) =>
        /\ \A k \in 1..Len(ret[1]) : ret[1][k] # hasPermission
        /\ getDirectCalls([arg EXCEPT !.body.body = <<Head(@)>>])
               \in {<<>>, <<helper>>}
        /\ pc = "checked" => Reported(arg)

C28_Witness ==
    /\ pc = "checked"
    /\ OnlyUncollectedCall
    /\ Head(BlockBodyOf(arg)) = IfStatementOn(HasPermissionCall, BlockStatement(<<>>))
    /\ Len(BlockBodyOf(arg)) = 2
    /\ ret = <<<<helper>>>>
    /\ Reported(arg)

----------------------------------------------------------------------------
(* Properties of the policy with no enforced name (SpecSite) *)

\* C29: enforce defaults to the empty list, and with an empty enforce list the
\* evaluation completes: with requireAll = true no site is reported, with
\* requireAll = false every site with a non-empty body is reported whatever
\* it calls.
C29_EmptyEnforceAllPassesAnyReports ==
    /\ DefaultPolicy.enforce = <<>>
    /\ (pc = "checked" /\ policy.enforce = <<>>) =>
           /\ policy.requireAll => reports = <<>>
           /\ (~policy.requireAll /\ NonEmptyBody(arg)) => Reported(arg)
           /\ (~policy.requireAll /\ ~NonEmptyBody(arg)) => reports = <<>>

C29_Witness ==
    /\ pc = "checked"
    /\ policy.enforce = <<>>
    /\ ~policy.requireAll
    /\ arg = FunctionExpression(
                 BlockStatement(<<CallStatement(Identifier(hasPermission)),
                                  CallStatement(Identifier(isAuthenticated))>>))
    /\ Len(reports) = 1
    /\ reports[1].node = arg
    /\ reports[1].data.functions = <<>>

----------------------------------------------------------------------------
(* Order between the two modes and monotonicity in the calls (SpecSite) *)

\* the call lists that may be added to an extracted call list
AddedCalls ==
    {<<n>> : n \in EnforceNames \cup {helper}}
        \cup {<<helper, n>> : n \in EnforceNames \cup {helper}}

\* C30: for a non-empty enforce list, a site reported with requireAll = false
\* fails the policy with requireAll = true as well, a site that passes with
\* requireAll = true also passes with requireAll = false, and a site that
\* passes in either mode still passes when calls are added before or after
\* its extracted calls.
C30_AllOfStricterAndMonotone ==
    (pc = "checked" /\ policy.enforce # <<>> /\ NonEmptyBody(arg)) =>
        LET calls == getDirectCalls(arg)
        IN /\ (~policy.requireAll /\ Reported(arg))
                  => ~checkEnforcedCalls(calls, policy.enforce, TRUE)
           /\ (policy.requireAll /\ ~Reported(arg))
                  => checkEnforcedCalls(calls, policy.enforce, FALSE)
           /\ ~Reported(arg) =>
                  \A extra \in AddedCalls :
                      /\ checkEnforcedCalls(calls \o extra, policy.enforce,
                                            policy.requireAll)
                      /\ checkEnforcedCalls(extra \o calls, policy.enforce,
                                            policy.requireAll)

C30_Witness ==
    /\ pc = "checked"
    /\ ~policy.requireAll
    /\ policy.enforce = <<isAuthenticated, hasPermission>>
    /\ arg = FunctionExpression(
                 BlockStatement(<<CallStatement(Identifier(helper)),
                                  CallStatement(Identifier(hasPermission))>>))
    /\ reports = <<>>
    /\ ~checkEnforcedCalls(getDirectCalls(arg), policy.enforce, TRUE)
    /\ checkEnforcedCalls(getDirectCalls(arg) \o <<helper>>, policy.enforce, FALSE)
====
